---- MODULE Spec2Model ----
(***************************************************************************)
(* A model of the core of the postman-clone REST client:                   *)
(*   - services/api_client.py     APIClient.make_request/_execute_request  *)
(*   - models/response_model.py   APIResponse                              *)
(*   - services/data_manager.py   history and environment stores           *)
(*   - models/collection_model.py RequestCollection (the item tree)        *)
(*   - services/collection_manager.py CollectionManager                    *)
(* Each subsystem has its own specification over the shared variables; the *)
(* variables of the other subsystems stay at their initial values.         *)
(***************************************************************************)
EXTENDS Integers, Sequences, FiniteSets, TLC

VARIABLES
    \* ---- APIClient: one entry per make_request call
    pc,          \* position of the call's thread
    net,         \* what the network has produced for the call's HTTP call
    resp,        \* the value _execute_request returned to _request_thread
    delivered,   \* the responses the callback was invoked with, in order
    order,       \* the calls in the order make_request was called
    \* ---- APIClient._execute_request: the preparation of one call
    request,     \* the APIRequest handed to _execute_request
    envVars,     \* environment_vars: the dict as its (key, value) items in order
    dispatched,  \* the arguments session.request was called with
    validation,  \* what request.validate() returned
    headersOut,  \* what request.get_request_headers() returned
    env_variables, \* Environment.variables: the list of EnvironmentVariable objects
    texts,       \* a text, and what successive environment.substitute_variables give
    \* ---- DataManager: the JSON files and the clock
    history,       \* history.json: the list of entries
    environments,  \* environments.json: the list of environment dicts
    dmCollections, \* collections.json: the list of collection dicts
    now,           \* the last value time.time() returned
    dmOps,         \* the number of DataManager calls so far
    dmLast,        \* the last DataManager call: its name and return value
    \* ---- CollectionManager
    collections,   \* self.collections: the RequestCollection objects in memory
    collFile,      \* request_collections.json: the list under 'collections'
    nextId,        \* the uuid4 values handed out so far
    cmOps,         \* the number of CollectionManager calls so far
    cmLast,        \* the last CollectionManager call: name, arguments, outcome
    \* ---- MainWindow
    objects,          \* the APIRequest instances created so far: their fields
    current_request,  \* self.current_request: the instance it refers to
    current_response, \* self.current_response, <<>> for None
    url_entry,        \* the text of the URL entry
    calls,            \* the make_request calls: the instance passed, the thread
    after,            \* the _update_response_ui callbacks root.after has queued
    uiOps             \* the number of user actions so far

clientVars == <<pc, net, resp, delivered, order>>

execVars == <<request, envVars, dispatched, validation, headersOut, env_variables, texts>>

dataVars == <<history, environments, dmCollections, now, dmOps, dmLast>>

collVars == <<collections, collFile, nextId, cmOps, cmLast>>

windowVars == <<objects, current_request, current_response, url_entry, calls, after, uiOps>>

\* what each subsystem leaves alone
nonClientVars == <<execVars, dataVars, collVars, windowVars>>
nonExecVars == <<clientVars, dataVars, collVars, windowVars>>
nonDataVars == <<clientVars, execVars, collVars, windowVars>>
nonCollVars == <<clientVars, execVars, dataVars, windowVars>>

vars == <<pc, net, resp, delivered, order, nonClientVars>>

\* Python's None
None == "None"

\* the subsystems at rest: the values their variables keep in the
\* specifications of the other subsystems
IdleClient ==
    /\ pc = <<>>
    /\ net = <<>>
    /\ resp = <<>>
    /\ delivered = <<>>
    /\ order = <<>>

IdleExec ==
    /\ request = <<>>
    /\ envVars = <<>>
    /\ dispatched = <<>>
    /\ validation = <<>>
    /\ headersOut = <<>>
    /\ env_variables = <<>>
    /\ texts = <<>>

IdleData ==
    /\ history = <<>>
    /\ environments = <<>>
    /\ dmCollections = <<>>
    /\ now = 0
    /\ dmOps = 0
    /\ dmLast = <<>>

IdleColl ==
    /\ collections = <<>>
    /\ collFile = <<>>
    /\ nextId = 0
    /\ cmOps = 0
    /\ cmLast = <<>>

IdleWindow ==
    /\ objects = <<>>
    /\ current_request = 0
    /\ current_response = <<>>
    /\ url_entry = <<>>
    /\ calls = <<>>
    /\ after = 0
    /\ uiOps = 0

----------------------------------------------------------------------------
(***************************************************************************)
(* APIClient                                                               *)
(***************************************************************************)

\* number of make_request calls issued by the caller
NumCalls == 2

Calls == 1..NumCalls

\* HTTP statuses a server may answer with (around the is_success limits)
StatusCodes == {199, 200, 299, 300, 500}

\* exceptions session.request, or the preparation before it, may raise
ExceptionKinds == {"Timeout", "ConnectionError", "RequestException", "Exception"}

\* what one HTTP call can end with
Outcomes ==
    [kind : {"status"}, code : StatusCodes] \cup
    [kind : ExceptionKinds, code : {0}]

\* APIResponse(...) with the dataclass defaults for the fields not given
APIResponse(status_code, response_time, error) ==
    [status_code |-> status_code, response_time |-> response_time, error |-> error]

\* APIResponse.is_success
is_success(r) == 200 <= r.status_code /\ r.status_code < 300

\* _execute_request without its last handler (except Exception)
execute_request_no_catch_all(o) ==
    CASE o.kind = "status" ->
            [raised |-> FALSE, value |-> APIResponse(o.code, "elapsed", None)]
      [] o.kind = "Timeout" ->
            [raised |-> FALSE, value |-> APIResponse(0, "elapsed", "Request timed out")]
      [] o.kind = "ConnectionError" ->
            [raised |-> FALSE, value |-> APIResponse(0, "elapsed", "Connection error")]
      [] o.kind = "RequestException" ->
            [raised |-> FALSE, value |-> APIResponse(0, "elapsed", "Request error")]
      [] OTHER ->
            [raised |-> TRUE, value |-> APIResponse(0, "default", "str(e)")]

\* _execute_request: the outcome of the try block mapped to what the function
\* hands to its caller; response_time is "elapsed" when it was computed from
\* start_time and "default" when the field keeps the dataclass default 0.0
execute_request(o) ==
    CASE o.kind = "status" ->
            [raised |-> FALSE, value |-> APIResponse(o.code, "elapsed", None)]
      [] o.kind = "Timeout" ->
            [raised |-> FALSE, value |-> APIResponse(0, "elapsed", "Request timed out")]
      [] o.kind = "ConnectionError" ->
            [raised |-> FALSE, value |-> APIResponse(0, "elapsed", "Connection error")]
      [] o.kind = "RequestException" ->
            [raised |-> FALSE, value |-> APIResponse(0, "elapsed", "Request error")]
      [] OTHER ->
            [raised |-> FALSE, value |-> APIResponse(0, "elapsed", "Unexpected error")]

\* the response built in _request_thread's except block
error_response == APIResponse(0, "default", "str(e)")

\* where _request_thread continues after _execute_request
AfterExecute(r) == IF r.raised THEN "except" ELSE "returned"

InitClient ==
    /\ pc = [i \in Calls |-> "idle"]
    /\ net = [i \in Calls |-> [kind |-> "none", code |-> 0]]
    /\ resp = [i \in Calls |-> APIResponse(0, "default", None)]
    /\ delivered = [i \in Calls |-> <<>>]
    /\ order = <<>>
    /\ IdleExec
    /\ IdleData
    /\ IdleColl
    /\ IdleWindow

\* make_request: starts the daemon thread and returns
make_request(i) ==
    /\ pc[i] = "idle"
    /\ pc' = [pc EXCEPT ![i] = "executing"]
    /\ order' = Append(order, i)
    /\ UNCHANGED <<net, resp, delivered, nonClientVars>>

\* _execute_request up to session.request: the call is on the wire
Dispatch(i) ==
    /\ pc[i] = "executing"
    /\ pc' = [pc EXCEPT ![i] = "sent"]
    /\ net' = [net EXCEPT ![i] = [kind |-> "pending", code |-> 0]]
    /\ UNCHANGED <<resp, delivered, order, nonClientVars>>

\* _execute_request when the preparation before session.request raises
PrepareFails(i) ==
    /\ pc[i] = "executing"
    /\ LET r == execute_request([kind |-> "Exception", code |-> 0]) IN
        /\ resp' = [resp EXCEPT ![i] = r.value]
        /\ pc' = [pc EXCEPT ![i] = AfterExecute(r)]
    /\ UNCHANGED <<net, delivered, order, nonClientVars>>

\* the network: the server answers, or the transport fails or times out
ServerAnswers(i) ==
    /\ pc[i] = "sent"
    /\ net[i].kind = "pending"
    /\ \E o \in Outcomes : net' = [net EXCEPT ![i] = o]
    /\ UNCHANGED <<pc, resp, delivered, order, nonClientVars>>

\* a thread blocked in session.request waits for other calls still on the
\* wire that were sent before it (one call at a time)
CanReceiveSerial(i) ==
    /\ pc[i] = "sent"
    /\ net[i].kind # "pending"
    /\ \A j \in Calls : (j < i /\ pc[j] = "sent") => net[j].kind # "pending"

\* a thread blocked in session.request resumes when its own call has ended;
\* each call runs on a thread of its own
CanReceive(i) ==
    /\ pc[i] = "sent"
    /\ net[i].kind # "pending"

\* session.request returns or raises; _execute_request builds its result
Receive(i) ==
    /\ CanReceive(i)
    /\ LET r == execute_request(net[i]) IN
        /\ resp' = [resp EXCEPT ![i] = r.value]
        /\ pc' = [pc EXCEPT ![i] = AfterExecute(r)]
    /\ UNCHANGED <<net, delivered, order, nonClientVars>>

\* callback(response) in the try block; the callback may raise
CallbackInTry(i) ==
    /\ pc[i] = "returned"
    /\ delivered' = [delivered EXCEPT ![i] = Append(@, resp[i])]
    /\ \E raises \in BOOLEAN :
        pc' = [pc EXCEPT ![i] = IF raises THEN "except" ELSE "done"]
    /\ UNCHANGED <<net, resp, order, nonClientVars>>

\* callback(error_response) in the except block; if the callback raises
\* again the exception leaves the thread
CallbackInExcept(i) ==
    /\ pc[i] = "except"
    /\ delivered' = [delivered EXCEPT ![i] = Append(@, error_response)]
    /\ \E raises \in BOOLEAN :
        pc' = [pc EXCEPT ![i] = IF raises THEN "died" ELSE "done"]
    /\ UNCHANGED <<net, resp, order, nonClientVars>>

\* the steps of the thread of call i
ThreadStep(i) ==
    \/ Dispatch(i)
    \/ PrepareFails(i)
    \/ Receive(i)
    \/ CallbackInTry(i)
    \/ CallbackInExcept(i)

NextClient ==
    \/ \E i \in Calls : make_request(i)
    \/ \E i \in Calls : Dispatch(i)
    \/ \E i \in Calls : PrepareFails(i)
    \/ \E i \in Calls : ServerAnswers(i)
    \/ \E i \in Calls : Receive(i)
    \/ \E i \in Calls : CallbackInTry(i)
    \/ \E i \in Calls : CallbackInExcept(i)

SpecClient == InitClient /\ [][NextClient]_vars

\* every started thread is scheduled; the network owes nothing
FairSpecClient == SpecClient /\ \A i \in Calls : WF_vars(ThreadStep(i))

Finished(i) == pc[i] \in {"done", "died"}

\* the outcome of call i's try block: the prepared call's end, or the
\* exception of a preparation that never reached the wire
OutcomeOf(i) ==
    IF net[i].kind = "none" THEN [kind |-> "Exception", code |-> 0] ELSE net[i]

\* C1: for every make_request call the callback is invoked exactly once,
\* never twice and, once the thread has ended, never zero times, also when
\* the callback itself raises while it handles the response.
C1_CallbackExactlyOnce ==
    \A i \in Calls :
        /\ Len(delivered[i]) <= 1
        /\ Finished(i) => Len(delivered[i]) = 1

\* C2: _execute_request never raises (the except block of _request_thread is
\* entered only after a callback), every failed outcome gives a response with
\* error set, status_code 0 and response_time measured, and every HTTP status
\* gives a response without error carrying that status, so that is_success
\* holds exactly for 200 <= status < 300.
C2_FailuresBecomeResponses ==
    \A i \in Calls :
        /\ pc[i] = "except" => Len(delivered[i]) >= 1
        /\ Len(delivered[i]) >= 1 =>
            LET r == delivered[i][1]
                o == OutcomeOf(i)
            IN  /\ o.kind = "status" =>
                    /\ r.error = None
                    /\ r.status_code = o.code
                    /\ is_success(r) <=> (200 <= o.code /\ o.code < 300)
                /\ o.kind # "status" =>
                    /\ r.error # None
                    /\ r.status_code = 0
                    /\ r.response_time = "elapsed"
                    /\ ~is_success(r)

\* C2 witness: one call answered with HTTP 500 and one call that failed with an
\* unexpected internal error have both been delivered to their callbacks.
C2_Witness ==
    \E i, j \in Calls :
        /\ Len(delivered[i]) >= 1 /\ OutcomeOf(i) = [kind |-> "status", code |-> 500]
        /\ Len(delivered[j]) >= 1 /\ OutcomeOf(j).kind = "Exception"

\* C3: a call whose own HTTP call has ended eventually has its callback
\* invoked, whatever the other calls in flight do (they may never be answered).
C3_FinishedCallIsDelivered ==
    \A i \in Calls :
        (pc[i] = "sent" /\ net[i].kind # "pending") ~> (Len(delivered[i]) >= 1)

\* C3 witness: the callback of a later call has been invoked while a call made
\* before it is still waiting for its server.
C3_Witness ==
    \E a, b \in 1..Len(order) :
        /\ a < b
        /\ pc[order[a]] = "sent" /\ net[order[a]].kind = "pending"
        /\ Len(delivered[order[b]]) >= 1

----------------------------------------------------------------------------
(***************************************************************************)
(* APIClient._execute_request: variable substitution and preparation.      *)
(* A text is a sequence of one-character strings.                          *)
(***************************************************************************)

\* the pieces the texts of the checked requests are built from
MaxPieces == 2

\* f"{{{{{key}}}}}": the placeholder of a variable
Placeholder(key) == <<"{", "{">> \o key \o <<"}", "}">>

\* the names and values of the environment variables
VarKeys == {<<"a">>, <<"b">>}
VarValues == {<<"1">>, <<"2">>}

Pieces == {Placeholder(k) : k \in VarKeys} \cup {<<"x">>}

RECURSIVE TextsOf(_)
TextsOf(n) ==
    IF n = 0 THEN {<<>>}
    ELSE TextsOf(n - 1) \cup {t \o q : t \in TextsOf(n - 1), q \in Pieces}

Texts == TextsOf(MaxPieces)
ShortTexts == TextsOf(1)

\* str.replace(old, new) for a non-empty old: every non-overlapping occurrence,
\* scanning from the left
RECURSIVE replace(_, _, _)
replace(s, old, new) ==
    IF Len(s) < Len(old) THEN s
    ELSE IF SubSeq(s, 1, Len(old)) = old
         THEN new \o replace(SubSeq(s, Len(old) + 1, Len(s)), old, new)
         ELSE <<Head(s)>> \o replace(Tail(s), old, new)

\* old in s
Contains(s, old) ==
    \E i \in 1..(Len(s) - Len(old) + 1) : SubSeq(s, i, i + Len(old) - 1) = old

\* for key, value in variables.items(): result = result.replace(placeholder, value)
RECURSIVE substitute_variables(_, _)
substitute_variables(text, variables) ==
    IF variables = <<>> THEN text
    ELSE substitute_variables(
            replace(text, Placeholder(variables[1].key), variables[1].value),
            Tail(variables))

\* for key, value in d.items(): for env_key, env_value in environment_vars.items():
\*     d[key] = value.replace(placeholder, env_value)
\* value is bound once per entry, so every assignment starts from the original
\* value and the last variable's assignment is the one that stays
substitute_values(values, variables) ==
    IF variables = <<>> THEN values
    ELSE LET last == variables[Len(variables)] IN
         [k \in DOMAIN values |-> replace(values[k], Placeholder(last.key), last.value)]

\* d[k] = v on a dict
Put(d, k, v) == [x \in DOMAIN d \cup {k} |-> IF x = k THEN v ELSE d[x]]

\* the dicts of the checked requests have one entry each
HeaderNames == {"X"}
ParamNames == {"q"}

\* the environment dicts: items in insertion order, keys distinct
EnvDicts ==
    {<<>>} \cup
    {<<[key |-> k, value |-> v]>> : k \in VarKeys, v \in VarValues} \cup
    {d \in {<<[key |-> k1, value |-> v1], [key |-> k2, value |-> v2]>> :
                k1 \in VarKeys, k2 \in VarKeys, v1 \in VarValues, v2 \in VarValues} :
        d[1].key # d[2].key}

\* auth_data with the defaults its .get calls fall back to
AuthData(token, username, password, key, value, location) ==
    [token |-> token, username |-> username, password |-> password,
     key |-> key, value |-> value, location |-> location]

NoAuthData == AuthData(<<>>, <<>>, <<>>, "", <<>>, "header")

\* the authentication settings of the checked requests
AuthChoices ==
    {[auth_type |-> "none", auth_data |-> NoAuthData],
     [auth_type |-> "bearer", auth_data |-> AuthData(<<"t">>, <<>>, <<>>, "", <<>>, "header")],
     [auth_type |-> "bearer", auth_data |-> NoAuthData],
     [auth_type |-> "basic", auth_data |-> AuthData(<<>>, <<"u">>, <<"p">>, "", <<>>, "header")],
     [auth_type |-> "api_key", auth_data |-> AuthData(<<>>, <<>>, <<>>, "K", <<"v">>, "header")],
     [auth_type |-> "api_key", auth_data |-> AuthData(<<>>, <<>>, <<>>, "K", <<"v">>, "query")]}

\* the bodies of the checked requests: none, a JSON object, a JSON number, a
\* text that is not JSON, a placeholder
BodyTexts == {<<>>, <<"{", "}">>, <<"1">>, <<"x">>, Placeholder(<<"a">>)}

Digits == {"0", "1", "2", "3", "4", "5", "6", "7", "8", "9"}

\* json.loads on the texts above: the type of the parsed value, or "invalid"
\* for JSONDecodeError
json_loads(text) ==
    IF text = <<"{", "}">> THEN "dict"
    ELSE IF text = <<"[", "]">> THEN "list"
    ELSE IF /\ text # <<>>
            /\ (Len(text) = 1 \/ text[1] # "0")
            /\ \A i \in 1..Len(text) : text[i] \in Digits
         THEN "int"
    ELSE "invalid"

\* a Python value of the body: its type and its text
Value(type, text) == [type |-> type, text |-> text]
NoneValue == Value("None", <<>>)

\* the requests handed to _execute_request
Requests ==
    {[url |-> u, method |-> m, headers |-> h, params |-> q, body |-> b,
      body_type |-> bt, auth_type |-> a.auth_type, auth_data |-> a.auth_data] :
        u \in ShortTexts, m \in {"GET", "POST"}, h \in [HeaderNames -> Texts],
        q \in [ParamNames -> ShortTexts], b \in BodyTexts,
        bt \in {"json", "raw"}, a \in AuthChoices}

\* get_request_headers with "if token:" left out
get_request_headers_any_token(r) ==
    LET h0 == r.headers
        h1 == IF r.auth_type = "bearer"
              THEN Put(h0, "Authorization", <<"Bearer ">> \o r.auth_data.token)
              ELSE IF r.auth_type = "api_key"
              THEN IF r.auth_data.key # "" /\ r.auth_data.value # <<>>
                      /\ r.auth_data.location = "header"
                   THEN Put(h0, r.auth_data.key, r.auth_data.value)
                   ELSE h0
              ELSE h0
    IN  IF r.body # <<>> /\ r.method \in {"POST", "PUT", "PATCH"}
        THEN IF r.body_type = "json"
             THEN Put(h1, "Content-Type", <<"application/json">>)
             ELSE IF r.body_type = "x-www-form-urlencoded"
             THEN Put(h1, "Content-Type", <<"application/x-www-form-urlencoded">>)
             ELSE h1
        ELSE h1

\* APIRequest.get_request_headers
get_request_headers(r) ==
    LET h0 == r.headers
        h1 == IF r.auth_type = "bearer"
              THEN IF r.auth_data.token # <<>>
                   THEN Put(h0, "Authorization", <<"Bearer ">> \o r.auth_data.token)
                   ELSE h0
              ELSE IF r.auth_type = "api_key"
              THEN IF r.auth_data.key # "" /\ r.auth_data.value # <<>>
                      /\ r.auth_data.location = "header"
                   THEN Put(h0, r.auth_data.key, r.auth_data.value)
                   ELSE h0
              ELSE h0
    IN  IF r.body # <<>> /\ r.method \in {"POST", "PUT", "PATCH"}
        THEN IF r.body_type = "json"
             THEN Put(h1, "Content-Type", <<"application/json">>)
             ELSE IF r.body_type = "x-www-form-urlencoded"
             THEN Put(h1, "Content-Type", <<"application/x-www-form-urlencoded">>)
             ELSE h1
        ELSE h1

\* APIRequest.get_request_body
get_request_body(r) ==
    IF r.body = <<>> THEN NoneValue
    ELSE IF r.body_type = "json"
         THEN IF json_loads(r.body) # "invalid"
              THEN Value(json_loads(r.body), r.body)
              ELSE Value("str", r.body)
         ELSE Value("str", r.body)

InitExec ==
    /\ request \in Requests
    /\ envVars \in EnvDicts
    /\ dispatched = <<>>
    /\ validation = <<>>
    /\ headersOut = <<>>
    /\ env_variables = <<>>
    /\ texts = <<>>
    /\ IdleClient
    /\ IdleData
    /\ IdleColl
    /\ IdleWindow

\* _execute_request, lines 55-110: the arguments of session.request
PrepareRequest ==
    /\ dispatched = <<>>
    /\ LET url == substitute_variables(request.url, envVars)
           headers == substitute_values(get_request_headers(request), envVars)
           auth == IF /\ request.auth_type = "basic"
                      /\ request.auth_data.username # <<>>
                      /\ request.auth_data.password # <<>>
                   THEN <<request.auth_data.username, request.auth_data.password>>
                   ELSE <<>>
           body0 == get_request_body(request)
           body == IF body0.type = "str"
                   THEN Value("str", substitute_variables(body0.text, envVars))
                   ELSE body0
           params0 == substitute_values(request.params, envVars)
           params == IF /\ request.auth_type = "api_key"
                        /\ request.auth_data.key # ""
                        /\ request.auth_data.value # <<>>
                        /\ request.auth_data.location = "query"
                     THEN Put(params0, request.auth_data.key, request.auth_data.value)
                     ELSE params0
       IN  dispatched' =
            <<[method |-> request.method,
               url |-> url,
               headers |-> headers,
               params |-> params,
               data |-> IF request.body_type # "json" THEN body ELSE NoneValue,
               json |-> IF request.body_type = "json" /\ body.type \in {"dict", "list"}
                        THEN body ELSE NoneValue,
               auth |-> auth]>>
    /\ UNCHANGED <<request, envVars, validation, headersOut, env_variables, texts, nonExecVars>>

NextExec == PrepareRequest

SpecExec == InitExec /\ [][NextExec]_vars

\* C4: in the dispatched call the URL, every header value and every
\* query-parameter value are the originals with every {{k}} replaced by v for
\* every variable (k, v) of the map, and no placeholder of a supplied variable
\* is left in a header value or a query-parameter value.
C4_EveryVariableSubstituted ==
    dispatched # <<>> =>
        LET call == dispatched[1] IN
        /\ call.url = substitute_variables(request.url, envVars)
        /\ \A h \in DOMAIN request.headers :
            /\ call.headers[h] = substitute_variables(request.headers[h], envVars)
            /\ \A n \in 1..Len(envVars) :
                ~Contains(call.headers[h], Placeholder(envVars[n].key))
        /\ \A q \in DOMAIN request.params :
            /\ call.params[q] = substitute_variables(request.params[q], envVars)
            /\ \A n \in 1..Len(envVars) :
                ~Contains(call.params[q], Placeholder(envVars[n].key))

\* C24: the call dispatched for a request with a non-empty body carries a
\* payload, as json= or as data=: for body_type json the parsed value when the
\* body parses (object, array or scalar) and else the raw string with the
\* variables substituted; for every other body_type the raw string with the
\* variables substituted.
C24_BodyIsSent ==
    (dispatched # <<>> /\ request.body # <<>>) =>
        LET call == dispatched[1]
            raw == Value("str", substitute_variables(request.body, envVars))
            payload == IF request.body_type = "json" /\ json_loads(request.body) # "invalid"
                       THEN Value(json_loads(request.body), request.body)
                       ELSE raw
        IN  /\ call.json = payload \/ call.data = payload
            /\ call.json # NoneValue \/ call.data # NoneValue

(***************************************************************************)
(* APIRequest.validate                                                     *)
(***************************************************************************)

\* str.startswith(prefix)
startswith(s, prefix) ==
    Len(s) >= Len(prefix) /\ SubSeq(s, 1, Len(prefix)) = prefix

Http == <<"h", "t", "t", "p", ":", "/", "/">>
Https == <<"h", "t", "t", "p", "s", ":", "/", "/">>

\* the (bool, str) tuple validate returns; the text of the JSONDecodeError
\* that follows "Invalid JSON in body: " is left out
Validation(valid, message) == [valid |-> valid, message |-> message]

\* validate with the JSON rule first
validate_json_first(r) ==
    IF r.body_type = "json" /\ r.body # <<>> /\ json_loads(r.body) = "invalid"
    THEN Validation(FALSE, "Invalid JSON in body: ")
    ELSE IF r.url = <<>>
    THEN Validation(FALSE, "URL is required")
    ELSE IF ~(startswith(r.url, Http) \/ startswith(r.url, Https))
    THEN Validation(FALSE, "URL must start with http:// or https://")
    ELSE Validation(TRUE, "")

\* APIRequest.validate
validate(r) ==
    IF r.url = <<>>
    THEN Validation(FALSE, "URL is required")
    ELSE IF ~(startswith(r.url, Http) \/ startswith(r.url, Https))
    THEN Validation(FALSE, "URL must start with http:// or https://")
    ELSE IF r.body_type = "json" /\ r.body # <<>> /\ json_loads(r.body) = "invalid"
    THEN Validation(FALSE, "Invalid JSON in body: ")
    ELSE Validation(TRUE, "")

\* the urls of the validated requests: none, the two schemes with and without
\* a host, a scheme cut short, another scheme, the scheme in capitals, the
\* scheme after a blank
Urls ==
    {<<>>, Http, Https, Http \o <<"x">>, Https \o <<"x">>,
     <<"h", "t", "t", "p", ":", "/">>, <<"f", "t", "p", ":", "/", "/", "x">>,
     <<"H", "T", "T", "P", ":", "/", "/", "x">>, <<" ">> \o Http \o <<"x">>, <<"x">>}

BodyTypes == {"json", "raw", "form-data", "x-www-form-urlencoded"}

ValidatedRequests ==
    {[url |-> u, method |-> "POST", headers |-> <<>>, params |-> <<>>, body |-> b,
      body_type |-> bt, auth_type |-> "none", auth_data |-> NoAuthData] :
        u \in Urls, b \in BodyTexts \cup {<<" ">>, <<"[", "]">>}, bt \in BodyTypes}

InitValidate ==
    /\ request \in ValidatedRequests
    /\ envVars = <<>>
    /\ dispatched = <<>>
    /\ validation = <<>>
    /\ headersOut = <<>>
    /\ env_variables = <<>>
    /\ texts = <<>>
    /\ IdleClient
    /\ IdleData
    /\ IdleColl
    /\ IdleWindow

\* request.validate()
Validate ==
    /\ validation = <<>>
    /\ validation' = <<validate(request)>>
    /\ UNCHANGED <<request, envVars, dispatched, headersOut, env_variables, texts, nonExecVars>>

NextValidate == Validate

SpecValidate == InitValidate /\ [][NextValidate]_vars

\* C15: validate reports the first rule that fails, in the order url empty,
\* url scheme, JSON body: an empty url gives "URL is required" and a non-empty
\* url without http:// or https:// in front gives the scheme message,
\* whatever the body; the invalid-JSON message is given only for a url that
\* passes both and a non-empty unparsable body of type json; every other
\* request gives (true, "").
C15_FirstFailingRuleWins ==
    validation # <<>> =>
        LET r == request
            v == validation[1]
            schemeOk == startswith(r.url, Http) \/ startswith(r.url, Https)
            badJson == r.body_type = "json" /\ r.body # <<>> /\ json_loads(r.body) = "invalid"
        IN  /\ r.url = <<>> => v = Validation(FALSE, "URL is required")
            /\ (r.url # <<>> /\ ~schemeOk) =>
                    v = Validation(FALSE, "URL must start with http:// or https://")
            /\ v.message = "Invalid JSON in body: " =>
                    r.url # <<>> /\ schemeOk /\ badJson
            /\ (r.url # <<>> /\ schemeOk /\ badJson) =>
                    v = Validation(FALSE, "Invalid JSON in body: ")
            /\ (r.url # <<>> /\ schemeOk /\ ~badJson) => v = Validation(TRUE, "")

\* a request that breaks the first and the third rule has been validated
C15_Witness ==
    /\ validation # <<>>
    /\ request.url = <<>>
    /\ request.body_type = "json" /\ request.body = <<"x">>
    /\ validation[1].message = "URL is required"

(***************************************************************************)
(* APIRequest.get_request_headers                                          *)
(***************************************************************************)

\* the explicit headers of the requests: none, an Authorization header, a
\* Content-Type header, another header, all of them
HeaderMaps ==
    {h \in UNION {[names -> {<<"old">>}] :
                    names \in SUBSET {"Authorization", "Content-Type", "X"}} :
        Cardinality(DOMAIN h) \in {0, 1, 3}}

\* bearer with a token, with an empty token (what .get('token', '') gives for
\* a missing one), and the other types; one api_key names its header
\* Authorization
HeaderAuthChoices ==
    AuthChoices \cup
    {[auth_type |-> "api_key",
      auth_data |-> AuthData(<<>>, <<>>, <<>>, "Authorization", <<"v">>, "header")],
     [auth_type |-> "none", auth_data |-> AuthData(<<"t">>, <<>>, <<>>, "", <<>>, "header")]}

HeaderRequests ==
    {[url |-> Http \o <<"x">>, method |-> m, headers |-> h, params |-> <<>>, body |-> b,
      body_type |-> bt, auth_type |-> a.auth_type, auth_data |-> a.auth_data] :
        m \in {"GET", "POST"}, h \in HeaderMaps, b \in {<<>>, <<"{", "}">>},
        bt \in {"json", "raw", "x-www-form-urlencoded"}, a \in HeaderAuthChoices}

\* self.headers after get_request_headers: headers = self.headers.copy(), so
\* the assignments to headers do not reach it
headers_after_get_request_headers(r) == r.headers

InitHeaders ==
    /\ request \in HeaderRequests
    /\ envVars = <<>>
    /\ dispatched = <<>>
    /\ validation = <<>>
    /\ headersOut = <<>>
    /\ env_variables = <<>>
    /\ texts = <<>>
    /\ IdleClient
    /\ IdleData
    /\ IdleColl
    /\ IdleWindow

\* request.get_request_headers()
GetRequestHeaders ==
    /\ headersOut = <<>>
    /\ headersOut' = <<get_request_headers(request)>>
    /\ request' = [request EXCEPT !.headers = headers_after_get_request_headers(request)]
    /\ UNCHANGED <<envVars, dispatched, validation, env_variables, texts, nonExecVars>>

NextHeaders == GetRequestHeaders

SpecHeaders == InitHeaders /\ [][NextHeaders]_vars

\* C20: for auth_type bearer with a non-empty token the returned map has
\* Authorization = "Bearer <token>", whatever Authorization the explicit
\* headers hold; with an empty token the explicit headers come back with the
\* Authorization entry they had, or none if they had none; the headers map of
\* the request is the same after the call.
C20_BearerAuthorization ==
    [][(headersOut = <<>> /\ headersOut' # <<>> /\ request.auth_type = "bearer") =>
        LET explicit == request.headers
            token == request.auth_data.token
            out == headersOut'[1]
        IN  /\ request'.headers = explicit
            /\ token # <<>> =>
                    /\ "Authorization" \in DOMAIN out
                    /\ out["Authorization"] = <<"Bearer ">> \o token
            /\ token = <<>> =>
                    /\ \A h \in DOMAIN explicit \ {"Content-Type"} :
                            h \in DOMAIN out /\ out[h] = explicit[h]
                    /\ "Authorization" \in DOMAIN out =>
                            "Authorization" \in DOMAIN explicit]_vars

\* the headers of a bearer request with a token and an explicit
\* Authorization header have been computed
C20_Witness ==
    /\ headersOut # <<>>
    /\ request.auth_type = "bearer"
    /\ request.auth_data.token = <<"t">>
    /\ "Authorization" \in DOMAIN request.headers
    /\ request.headers["Authorization"] = <<"old">>
    /\ headersOut[1]["Authorization"] = <<"Bearer ", "t">>

(***************************************************************************)
(* Environment.substitute_variables                                        *)
(***************************************************************************)

\* the EnvironmentVariable objects of the environments: a key or none, a
\* plain value or the placeholder of a variable, enabled or not
EnvironmentVariables ==
    [key : VarKeys \cup {<<>>},
     value : {<<"1">>} \cup {Placeholder(k) : k \in VarKeys},
     enabled : BOOLEAN]

\* the variables lists of the environments
MaxVariables == 2

RECURSIVE VariableListsOf(_)
VariableListsOf(n) ==
    IF n = 0 THEN {<<>>}
    ELSE VariableListsOf(n - 1) \cup
         {Append(l, v) : l \in VariableListsOf(n - 1), v \in EnvironmentVariables}

\* the texts handed to substitute_variables: those above and "{{}}"
SubstitutedTexts == Texts \cup {Placeholder(<<>>), Placeholder(<<>>) \o Placeholder(<<"a">>)}

\* d[key] = value on a dict kept as its items in insertion order
DictSet(items, key, value) ==
    IF \E i \in 1..Len(items) : items[i].key = key
    THEN [i \in 1..Len(items) |->
            IF items[i].key = key THEN [key |-> key, value |-> value] ELSE items[i]]
    ELSE Append(items, [key |-> key, value |-> value])

\* get_variables_dict with the filter left out
RECURSIVE all_variables_dict(_)
all_variables_dict(variables) ==
    IF variables = <<>> THEN <<>>
    ELSE LET var == variables[Len(variables)]
             rest == all_variables_dict(SubSeq(variables, 1, Len(variables) - 1))
         IN  DictSet(rest, var.key, var.value)

\* Environment.get_variables_dict:
\* {var.key: var.value for var in self.variables if var.enabled and var.key}
RECURSIVE get_variables_dict(_)
get_variables_dict(variables) ==
    IF variables = <<>> THEN <<>>
    ELSE LET var == variables[Len(variables)]
             rest == get_variables_dict(SubSeq(variables, 1, Len(variables) - 1))
         IN  IF var.enabled /\ var.key # <<>>
             THEN DictSet(rest, var.key, var.value)
             ELSE rest

\* substitute_variables over every variable, enabled or not
substitute_all_variables(text, variables) ==
    substitute_variables(text, all_variables_dict(variables))

\* Environment.substitute_variables
Environment_substitute_variables(text, variables) ==
    substitute_variables(text, get_variables_dict(variables))

InitSubstitute ==
    /\ env_variables \in VariableListsOf(MaxVariables)
    /\ texts \in {<<t>> : t \in SubstitutedTexts}
    /\ request = <<>>
    /\ envVars = <<>>
    /\ dispatched = <<>>
    /\ validation = <<>>
    /\ headersOut = <<>>
    /\ IdleClient
    /\ IdleData
    /\ IdleColl
    /\ IdleWindow

\* Environment.substitute_variables on the last text; twice at most
Substitute ==
    /\ Len(texts) < 3
    /\ texts' = Append(texts, Environment_substitute_variables(texts[Len(texts)], env_variables))
    /\ UNCHANGED <<request, envVars, dispatched, validation, headersOut, env_variables,
                   nonExecVars>>

NextSubstitute == Substitute

SpecSubstitute == InitSubstitute /\ [][NextSubstitute]_vars

\* the value the dict holds for a key
ValueOf(variables, key) ==
    LET i == CHOOSE i \in 1..Len(variables) : variables[i].key = key IN variables[i].value

\* the text with every placeholder it holds replaced by the value of its
\* variable, the inserted values being left as they are: one scan from the
\* left
RECURSIVE ReplacedOnce(_, _)
ReplacedOnce(text, variables) ==
    IF text = <<>> THEN <<>>
    ELSE LET starts == {i \in 1..Len(variables) :
                            startswith(text, Placeholder(variables[i].key))}
         IN  IF starts = {}
             THEN <<Head(text)>> \o ReplacedOnce(Tail(text), variables)
             ELSE LET i == CHOOSE i \in starts : TRUE
                      n == Len(Placeholder(variables[i].key))
                  IN  variables[i].value \o
                      ReplacedOnce(SubSeq(text, n + 1, Len(text)), variables)

\* C21: substitution replaces the placeholders of the original text only: a
\* value that holds the placeholder of another variable is inserted as it is,
\* whatever the order of the variables, and substitute("{{k}}", vars) is
\* vars[k].
C21_NoResubstitution ==
    Len(texts) >= 2 =>
        LET variables == get_variables_dict(env_variables) IN
        /\ texts[2] = ReplacedOnce(texts[1], variables)
        /\ \A i \in 1..Len(variables) :
                texts[1] = Placeholder(variables[i].key) => texts[2] = variables[i].value

\* the variables that are enabled and have a key
Effective(variables) == SelectSeq(variables, LAMBDA var : var.enabled /\ var.key # <<>>)

\* C22: when the substituted text holds no placeholder of an enabled
\* variable, substituting it again gives the same text; and the disabled
\* variables and those with an empty key do not count: the result is the one
\* the environment without them gives, and the text itself when no other
\* variable is left.
C22_IdempotentWithoutPlaceholders ==
    /\ Len(texts) = 3 =>
            ((\A i \in 1..Len(Effective(env_variables)) :
                ~Contains(texts[2], Placeholder(Effective(env_variables)[i].key)))
             => texts[3] = texts[2])
    /\ Len(texts) >= 2 =>
            /\ texts[2] = Environment_substitute_variables(texts[1], Effective(env_variables))
            /\ Effective(env_variables) = <<>> => texts[2] = texts[1]

\* a text with the placeholders of a disabled and of an enabled variable has
\* been substituted twice: the first call changed it, the second did not
C22_Witness ==
    /\ Len(texts) = 3
    /\ Len(env_variables) = 2
    /\ ~env_variables[1].enabled /\ env_variables[2].enabled
    /\ env_variables[1].key # <<>> /\ env_variables[2].key # <<>>
    /\ Contains(texts[1], Placeholder(env_variables[1].key))
    /\ Contains(texts[1], Placeholder(env_variables[2].key))
    /\ texts[2] # texts[1]
    /\ texts[3] = texts[2]

----------------------------------------------------------------------------
(***************************************************************************)
(* DataManager: history.json, environments.json and collections.json.      *)
(* Every operation reads the file, changes the list and writes it back;    *)
(* the files are readable lists and the writes succeed.                    *)
(***************************************************************************)

\* "Keep only last 1000 entries"
HistoryLimit == 1000

\* the number of DataManager calls of a run
MaxDataOps == 3

\* a history entry; request stands for the request/response pair it holds
Entry(timestamp, req) == [timestamp |-> timestamp, request |-> req]

\* a history file written by n earlier calls at times 1..n, newest first
StoredHistory(n) == [i \in 1..n |-> Entry(n + 1 - i, 0)]

Min(a, b) == IF a < b THEN a ELSE b

\* history[:n]
Truncate(h, n) == SubSeq(h, 1, Min(Len(h), n))

\* the loop over combined_history with seen_timestamps: the first entry of
\* every timestamp, in order.  The result of the loop over a list is the
\* result over its first half followed by the result over its second half
\* without the timestamps seen in the first.
RECURSIVE unique_history(_)
unique_history(combined) ==
    IF Len(combined) <= 1 THEN combined
    ELSE LET m == Len(combined) \div 2
             first == unique_history(SubSeq(combined, 1, m))
             second == unique_history(SubSeq(combined, m + 1, Len(combined)))
             seen_timestamps == {first[i].timestamp : i \in 1..Len(first)}
         IN  first \o SelectSeq(second, LAMBDA item : item.timestamp \notin seen_timestamps)

\* the merge without the seen_timestamps loop
merge_history_concatenated(imported, existing) ==
    Truncate(imported \o existing, HistoryLimit)

\* combined_history = import_data['history'] + existing_history, the loop,
\* unique_history[:1000]
merge_history(imported, existing) ==
    Truncate(unique_history(imported \o existing), HistoryLimit)

\* an environment dict (Environment.to_dict); a dict without the key 'name'
\* has name None
EnvNames == {"A", "B"}
VariableLists == {<<>>, <<[key |-> <<"a">>, value |-> <<"1">>, enabled |-> TRUE]>>}
EnvDict(name, variables, is_active) ==
    [name |-> name, variables |-> variables, is_active |-> is_active]

\* the Environment objects handed to save_environment
Environments ==
    {EnvDict(n, v, a) : n \in EnvNames, v \in VariableLists, a \in BOOLEAN}

\* d[item['name']] = item on the dict a merge builds: the items of the dict in
\* insertion order
DictPut(items, item) ==
    IF \E i \in 1..Len(items) : items[i].name = item.name
    THEN [i \in 1..Len(items) |-> IF items[i].name = item.name THEN item ELSE items[i]]
    ELSE Append(items, item)

\* {x['name']: x for x in existing}, then d[x['name']] = x for the imported
\* ones, then list(d.values())
RECURSIVE MergeByName(_, _)
MergeByName(merged, items) ==
    IF items = <<>> THEN merged
    ELSE MergeByName(DictPut(merged, Head(items)), Tail(items))

\* item['name'] raises KeyError on one of the dicts
NameMissing(items) == \E i \in 1..Len(items) : items[i].name = None

\* a section of an import file: absent, or a list
Absent == [present |-> FALSE, items |-> <<>>]
Section(items) == [present |-> TRUE, items |-> items]

Bundle(readable, h, e, c) ==
    [readable |-> readable, history |-> h, environments |-> e, collections |-> c]

\* import_data: the three files after the call and the value returned.  The
\* sections are applied in order; an exception leaves the files written so
\* far as they are and returns False.
import_data(b, merge, h, e, c) ==
    IF ~b.readable
    THEN [history |-> h, environments |-> e, collections |-> c, result |-> FALSE]
    ELSE
    LET h1 == IF ~b.history.present THEN h
              ELSE IF merge
                   THEN merge_history(b.history.items, h)
                   ELSE b.history.items
        envRaises == /\ b.environments.present /\ merge
                     /\ (NameMissing(e) \/ NameMissing(b.environments.items))
        e1 == IF ~b.environments.present \/ envRaises THEN e
              ELSE IF merge
                   THEN MergeByName(MergeByName(<<>>, e), b.environments.items)
                   ELSE b.environments.items
        collRaises == /\ ~envRaises /\ b.collections.present /\ merge
                      /\ (NameMissing(c) \/ NameMissing(b.collections.items))
        c1 == IF ~b.collections.present \/ envRaises \/ collRaises THEN c
              ELSE IF merge
                   THEN MergeByName(MergeByName(<<>>, c), b.collections.items)
                   ELSE b.collections.items
    IN  [history |-> h1, environments |-> e1, collections |-> c1,
         result |-> ~envRaises /\ ~collRaises]

\* the record of a call
Call(op, result) == [op |-> op, result |-> result]

\* save_to_history; time.time() does not run backwards and may return the
\* value it returned before
save_to_history(req) ==
    /\ dmOps < MaxDataOps
    /\ \E t \in {now, now + 1} :
        /\ now' = t
        /\ LET inserted == <<Entry(t, req)>> \o history IN
            history' = IF Len(inserted) > HistoryLimit
                       THEN Truncate(inserted, HistoryLimit)
                       ELSE inserted
    /\ dmOps' = dmOps + 1
    /\ dmLast' = <<Call("save_to_history", None)>>
    /\ UNCHANGED <<environments, dmCollections, nonDataVars>>

\* clear_history
clear_history ==
    /\ dmOps < MaxDataOps
    /\ dmOps' = dmOps + 1
    /\ history' = <<>>
    /\ dmLast' = <<Call("clear_history", None)>>
    /\ UNCHANGED <<environments, dmCollections, now, nonDataVars>>

\* delete_history_item
delete_history_item(timestamp) ==
    /\ dmOps < MaxDataOps
    /\ dmOps' = dmOps + 1
    /\ LET kept == SelectSeq(history, LAMBDA item : item.timestamp # timestamp) IN
        IF Len(kept) < Len(history)
        THEN /\ history' = kept
             /\ dmLast' = <<Call("delete_history_item", TRUE)>>
        ELSE /\ history' = history
             /\ dmLast' = <<Call("delete_history_item", FALSE)>>
    /\ UNCHANGED <<environments, dmCollections, now, nonDataVars>>

\* save_environment
save_environment(environment) ==
    /\ dmOps < MaxDataOps
    /\ dmOps' = dmOps + 1
    /\ environments' =
        IF \E i \in 1..Len(environments) : environments[i].name = environment.name
        THEN LET first == CHOOSE i \in 1..Len(environments) :
                            /\ environments[i].name = environment.name
                            /\ \A j \in 1..(i - 1) : environments[j].name # environment.name
             IN  [environments EXCEPT ![first] = environment]
        ELSE Append(environments, environment)
    /\ dmLast' = <<[op |-> "save_environment", result |-> None,
                   environment |-> environment]>>
    /\ UNCHANGED <<history, dmCollections, now, nonDataVars>>

\* delete_environment
delete_environment(name) ==
    /\ dmOps < MaxDataOps
    /\ dmOps' = dmOps + 1
    /\ LET kept == SelectSeq(environments, LAMBDA env : env.name # name) IN
        IF Len(kept) < Len(environments)
        THEN /\ environments' = kept
             /\ dmLast' = <<Call("delete_environment", TRUE)>>
        ELSE /\ environments' = environments
             /\ dmLast' = <<Call("delete_environment", FALSE)>>
    /\ UNCHANGED <<history, dmCollections, now, nonDataVars>>

\* set_active_environment writing the deactivated list when no name matches
set_active_environment_always_written(name) ==
    /\ dmOps < MaxDataOps
    /\ dmOps' = dmOps + 1
    /\ IF \E i \in 1..Len(environments) : environments[i].name = name
       THEN LET first == CHOOSE i \in 1..Len(environments) :
                            /\ environments[i].name = name
                            /\ \A j \in 1..(i - 1) : environments[j].name # name
            IN  /\ environments' =
                    [i \in 1..Len(environments) |->
                        [environments[i] EXCEPT !.is_active = (i = first)]]
                /\ dmLast' = <<[op |-> "set_active_environment", result |-> TRUE,
                               name |-> name]>>
       ELSE /\ environments' =
                    [i \in 1..Len(environments) |->
                        [environments[i] EXCEPT !.is_active = FALSE]]
            /\ dmLast' = <<[op |-> "set_active_environment", result |-> FALSE,
                               name |-> name]>>
    /\ UNCHANGED <<history, dmCollections, now, nonDataVars>>

\* set_active_environment: the list is written only when the name is found
set_active_environment(name) ==
    /\ dmOps < MaxDataOps
    /\ dmOps' = dmOps + 1
    /\ IF \E i \in 1..Len(environments) : environments[i].name = name
       THEN LET first == CHOOSE i \in 1..Len(environments) :
                            /\ environments[i].name = name
                            /\ \A j \in 1..(i - 1) : environments[j].name # name
            IN  /\ environments' =
                    [i \in 1..Len(environments) |->
                        [environments[i] EXCEPT !.is_active = (i = first)]]
                /\ dmLast' = <<[op |-> "set_active_environment", result |-> TRUE,
                               name |-> name]>>
       ELSE /\ environments' = environments
            /\ dmLast' = <<[op |-> "set_active_environment", result |-> FALSE,
                               name |-> name]>>
    /\ UNCHANGED <<history, dmCollections, now, nonDataVars>>

\* import_data(file_path, merge) on the file holding bundle b
ImportData(b, merge) ==
    /\ dmOps < MaxDataOps
    /\ dmOps' = dmOps + 1
    /\ LET r == import_data(b, merge, history, environments, dmCollections) IN
        /\ history' = r.history
        /\ environments' = r.environments
        /\ dmCollections' = r.collections
        /\ dmLast' = <<[op |-> IF merge THEN "import_data(merge)" ELSE "import_data(replace)",
                       result |-> r.result, bundle |-> b]>>
    /\ UNCHANGED <<now, nonDataVars>>

(***************************************************************************)
(* The environment store                                                   *)
(***************************************************************************)

\* the environments sections of the imported files; the last one lists two
\* environments of one name
ImportedEnvironments ==
    {<<>>,
     <<EnvDict("A", <<>>, TRUE)>>,
     <<EnvDict("A", <<>>, FALSE),
       EnvDict("A", <<[key |-> <<"a">>, value |-> <<"1">>, enabled |-> TRUE]>>, FALSE)>>,
     <<EnvDict("A", <<>>, FALSE), EnvDict("B", <<>>, TRUE)>>,
     <<EnvDict("A", <<>>, TRUE), EnvDict("B", <<>>, TRUE)>>}

EnvBundles == {Bundle(TRUE, Absent, Section(e), Absent) : e \in ImportedEnvironments}

\* a fresh installation: ensure_data_files has written [] to every file
InitEnv ==
    /\ history = <<>>
    /\ environments = <<>>
    /\ dmCollections = <<>>
    /\ now = 0
    /\ dmOps = 0
    /\ dmLast = <<>>
    /\ IdleClient
    /\ IdleExec
    /\ IdleColl
    /\ IdleWindow

NextEnv ==
    \/ \E environment \in Environments : save_environment(environment)
    \/ \E name \in EnvNames : delete_environment(name)
    \/ \E name \in EnvNames \cup {""} : set_active_environment(name)
    \/ \E b \in EnvBundles, merge \in BOOLEAN : ImportData(b, merge)

SpecEnv == InitEnv /\ [][NextEnv]_vars

\* the stored environments that are active
ActiveEnvironments == {i \in 1..Len(environments) : environments[i].is_active}

\* C5: in every state of the environment store reached by save_environment,
\* set_active_environment, delete_environment and import_data, at most one
\* stored environment has is_active = true.
C5_AtMostOneActive == Cardinality(ActiveEnvironments) <= 1

\* a step that is a call of import_data in merge mode on a file with an
\* environments section
MergeImportOfEnvironments ==
    /\ dmOps' = dmOps + 1
    /\ dmLast'[1].op = "import_data(merge)"
    /\ dmLast'[1].bundle.environments.present

\* C12: after import_data in merge mode with an environments section, for
\* every environment name of the import the store holds exactly one
\* environment of that name and it is the imported one, and every stored
\* environment whose name is not in the import is still stored, unchanged.
C12_MergeImportedWins ==
    [][MergeImportOfEnvironments =>
        LET imported == dmLast'[1].bundle.environments.items
            names == {imported[i].name : i \in 1..Len(imported)}
            old == environments
            new == environments'
        IN  /\ \A n \in names :
                /\ Cardinality({k \in 1..Len(new) : new[k].name = n}) = 1
                /\ \E k \in 1..Len(new), i \in 1..Len(imported) :
                        new[k].name = n /\ new[k] = imported[i]
            /\ \A j \in 1..Len(old) :
                    old[j].name \notin names => \E k \in 1..Len(new) : new[k] = old[j]]_vars

\* a step that is a call of save_environment with an environment whose name
\* is stored
SaveOfStoredName ==
    /\ dmOps' = dmOps + 1
    /\ dmLast'[1].op = "save_environment"
    /\ \E i \in 1..Len(environments) : environments[i].name = dmLast'[1].environment.name

\* C27: in every state of the environment store reached by save_environment,
\* delete_environment, set_active_environment and import_data no two stored
\* environments have the same name, and save_environment of an environment
\* whose name is stored replaces that entry in place and changes no other.
C27_NamesUnique ==
    /\ [](\A i, j \in 1..Len(environments) :
            environments[i].name = environments[j].name => i = j)
    /\ [][SaveOfStoredName =>
            LET environment == dmLast'[1].environment IN
            /\ Len(environments') = Len(environments)
            /\ \A i \in 1..Len(environments) :
                    environments'[i] =
                        IF environments[i].name = environment.name
                        THEN environment
                        ELSE environments[i]]_vars

\* a step that is a call of set_active_environment
SetActiveCall ==
    /\ dmOps' = dmOps + 1
    /\ dmLast'[1].op = "set_active_environment"

\* C29: set_active_environment(name) with a name that no stored environment
\* has (the empty name of "No Environment" included) returns false and
\* leaves the stored environments, their is_active flags with them, as they
\* were; with the name of a stored environment it returns true and afterwards
\* an environment of that name is active and every environment of another
\* name is inactive.
C29_SetActiveEnvironment ==
    [][SetActiveCall =>
        LET name == dmLast'[1].name IN
        IF \A i \in 1..Len(environments) : environments[i].name # name
        THEN /\ dmLast'[1].result = FALSE
             /\ environments' = environments
        ELSE /\ dmLast'[1].result = TRUE
             /\ \E i \in 1..Len(environments') :
                    environments'[i].name = name /\ environments'[i].is_active
             /\ \A i \in 1..Len(environments') :
                    environments'[i].name # name => ~environments'[i].is_active]_vars

\* set_active_environment has returned false on a store with an active
\* environment, which is still active
C29_Witness ==
    /\ dmLast # <<>>
    /\ dmLast[1].op = "set_active_environment"
    /\ dmLast[1].result = FALSE
    /\ ActiveEnvironments # {}

(***************************************************************************)
(* The history store                                                       *)
(***************************************************************************)

\* the history sections of the imported files: one with two entries of one
\* timestamp around an entry newer than every stored one, an export of a
\* history of HistoryLimit + 1 entries, and an export of a history of one
\* entry, older than the entries save_to_history stores after it
ImportedHistories ==
    {<<Entry(1, 9), Entry(5000, 9), Entry(1, 8)>>,
     [i \in 1..(HistoryLimit + 1) |-> Entry(HistoryLimit + 2 - i, 9)],
     <<Entry(0, 9)>>}

HistoryBundles == {Bundle(TRUE, Section(h), Absent, Absent) : h \in ImportedHistories}

\* the history file found at start: empty, or one entry short of the limit
InitHistory ==
    /\ \E n \in {0, HistoryLimit - 1} :
        /\ history = StoredHistory(n)
        /\ now = n
    /\ environments = <<>>
    /\ dmCollections = <<>>
    /\ dmOps = 0
    /\ dmLast = <<>>
    /\ IdleClient
    /\ IdleExec
    /\ IdleColl
    /\ IdleWindow

\* the timestamps the user picks for deletion: the newest entry, the oldest
\* entry, one that is not stored
DeleteChoices ==
    {-1} \cup (IF history = <<>> THEN {}
               ELSE {history[1].timestamp, history[Len(history)].timestamp})

NextHistory ==
    \/ \E req \in {1} : save_to_history(req)
    \/ \E timestamp \in DeleteChoices : delete_history_item(timestamp)
    \/ clear_history
    \/ \E b \in HistoryBundles, merge \in BOOLEAN : ImportData(b, merge)

SpecHistory == InitHistory /\ [][NextHistory]_vars

\* a step that is a call of save_to_history on a full store
SaveOnFullStore ==
    /\ Len(history) = HistoryLimit
    /\ dmLast' # <<>> /\ dmLast'[1].op = "save_to_history"
    /\ dmOps' = dmOps + 1

\* C6: the history store never holds more than 1000 entries, and
\* save_to_history on a store of 1000 entries leaves 1000 entries with the new
\* entry first, the former first 999 entries after it and the former last
\* entry gone.
C6_HistoryCapped ==
    /\ [](Len(history) <= HistoryLimit)
    /\ [][SaveOnFullStore =>
            /\ Len(history') = HistoryLimit
            /\ history'[1].timestamp = now'
            /\ SubSeq(history', 2, HistoryLimit) = SubSeq(history, 1, HistoryLimit - 1)]_vars

\* a step that is a call of import_data in merge mode on a file with a
\* history section
MergeImportOfHistory ==
    /\ dmOps' = dmOps + 1
    /\ dmLast'[1].op = "import_data(merge)"
    /\ dmLast'[1].bundle.history.present

Timestamps(h) == {h[i].timestamp : i \in 1..Len(h)}

\* C13: after import_data in merge mode with a history section no two entries
\* of the history store have the same timestamp, and when the stored and the
\* imported entries together have at most 1000 distinct timestamps, every one
\* of these timestamps is the timestamp of an entry of the store.
C13_MergeKeepsOneEntryPerTimestamp ==
    [][MergeImportOfHistory =>
        LET before == Timestamps(history) \cup Timestamps(dmLast'[1].bundle.history.items) IN
        /\ Cardinality(Timestamps(history')) = Len(history')
        /\ Cardinality(before) <= HistoryLimit => Timestamps(history') = before]_vars

\* a merge of the file that lists timestamp 1 twice into a store that holds
\* timestamp 1 as well; the store is full afterwards
C13_Witness ==
    /\ dmLast # <<>>
    /\ dmLast[1].op = "import_data(merge)"
    /\ Len(dmLast[1].bundle.history.items) = 3
    /\ Len(history) = HistoryLimit
    /\ history[1].timestamp = 1 /\ history[2].timestamp = 5000

\* C26: in every state reached by save_to_history, delete_history_item,
\* clear_history and import_data (merge or replace) the history is stored
\* newest first: the timestamps do not increase from the first entry to the
\* last.
C26_NewestFirst ==
    \A i \in 1..(Len(history) - 1) : history[i].timestamp >= history[i + 1].timestamp

(***************************************************************************)
(* import_data on files with several sections                              *)
(***************************************************************************)

\* a collection dict of collections.json, as far as import_data reads it
CollDict(name) == [name |-> name]

\* the import files: one that cannot be read or parsed, a full export, a
\* file whose environments section holds an entry without 'name' after a
\* history section, and one whose collections section holds such an entry
\* after an environments section
ImportBundles ==
    {Bundle(FALSE, Absent, Absent, Absent),
     Bundle(TRUE, Section(<<Entry(7, 9)>>), Section(<<EnvDict("A", <<>>, FALSE)>>),
            Section(<<CollDict("C")>>)),
     Bundle(TRUE, Section(<<Entry(7, 9)>>), Section(<<EnvDict(None, <<>>, FALSE)>>),
            Absent),
     Bundle(TRUE, Absent, Section(<<EnvDict("B", <<>>, FALSE)>>),
            Section(<<CollDict(None)>>))}

NextImport ==
    \/ \E req \in {1} : save_to_history(req)
    \/ \E environment \in Environments : save_environment(environment)
    \/ \E b \in ImportBundles, merge \in BOOLEAN : ImportData(b, merge)

SpecImport == InitEnv /\ [][NextImport]_vars

\* a step that is a call of import_data
ImportCall ==
    /\ dmOps' = dmOps + 1
    /\ dmLast'[1].op \in {"import_data(merge)", "import_data(replace)"}

\* C28: import_data is all-or-nothing: when it returns false none of the
\* history, environments and collections files has been changed by the call,
\* and when it returns true every section of the file has been applied.
C28_ImportAllOrNothing ==
    [][ImportCall =>
        LET b == dmLast'[1].bundle
            merge == dmLast'[1].op = "import_data(merge)"
        IN  /\ dmLast'[1].result = FALSE =>
                    /\ history' = history
                    /\ environments' = environments
                    /\ dmCollections' = dmCollections
            /\ dmLast'[1].result = TRUE =>
                    /\ b.history.present =>
                            history' = IF merge THEN merge_history(b.history.items, history)
                                       ELSE b.history.items
                    /\ b.environments.present =>
                            environments' =
                                IF merge
                                THEN MergeByName(MergeByName(<<>>, environments),
                                                 b.environments.items)
                                ELSE b.environments.items
                    /\ b.collections.present =>
                            dmCollections' =
                                IF merge
                                THEN MergeByName(MergeByName(<<>>, dmCollections),
                                                 b.collections.items)
                                ELSE b.collections.items]_vars

----------------------------------------------------------------------------
(***************************************************************************)
(* RequestCollection (the flat list of items linked by parent_id) and     *)
(* CollectionManager (the collections in memory and their file).          *)
(* Names are sequences of pieces of text; ids are the uuid4 values in the *)
(* order they were generated.  The description and the timestamps of      *)
(* items and collections are left out: no operation below depends on them *)
(* and to_dict/from_dict copy them as they are.                           *)
(***************************************************************************)

\* the items a collection may hold when an item is added or duplicated
MaxItems == 3

\* the number of CollectionManager calls of a run
MaxCollOps == 4

\* parent_id None
NoneId == 0

\* an id that no collection and no item has
GhostId == 0 - 1

\* the APIRequest objects stored in collections
APIRequestOf(name) == [name |-> name, method |-> "GET", url |-> <<"u">>]
RequestInputs == {APIRequestOf(<<>>), APIRequestOf(<<"r">>)}

\* APIRequest.to_dict / from_dict on the fields kept here
request_to_dict(r) == [name |-> r.name, method |-> r.method, url |-> r.url]
request_from_dict(data) == [name |-> data.name, method |-> data.method, url |-> data.url]

\* the item objects; request is <<>> on a folder
CollectionFolder(id, name, parent_id) ==
    [class |-> "CollectionFolder", id |-> id, name |-> name,
     parent_id |-> parent_id, request |-> <<>>]

CollectionRequest(id, name, parent_id, req) ==
    [class |-> "CollectionRequest", id |-> id, name |-> name,
     parent_id |-> parent_id, request |-> <<req>>]

\* CollectionFolder.to_dict / CollectionRequest.to_dict
item_to_dict(item) ==
    IF item.class = "CollectionFolder"
    THEN [type |-> "folder", id |-> item.id, name |-> item.name,
          parent_id |-> item.parent_id, request |-> <<>>]
    ELSE [type |-> "request", id |-> item.id, name |-> item.name,
          parent_id |-> item.parent_id,
          request |-> <<request_to_dict(item.request[1])>>]

\* CollectionFolder.from_dict / CollectionRequest.from_dict, chosen by 'type'
\* as in RequestCollection.from_dict
item_from_dict(data) ==
    IF data.type = "folder"
    THEN CollectionFolder(data.id, data.name, data.parent_id)
    ELSE LET req == request_from_dict(data.request[1])
             name == IF data.name = <<>> /\ req.name # <<>> THEN req.name ELSE data.name
         IN  CollectionRequest(data.id, name, data.parent_id, req)

\* RequestCollection.to_dict
collection_to_dict(c) ==
    [id |-> c.id, name |-> c.name,
     items |-> [i \in 1..Len(c.items) |-> item_to_dict(c.items[i])]]

\* RequestCollection.from_dict
collection_from_dict(data) ==
    [id |-> data.id, name |-> data.name,
     items |-> [i \in 1..Len(data.items) |-> item_from_dict(data.items[i])]]

\* RequestCollection(name=...)
RequestCollection(id, name) == [id |-> id, name |-> name, items |-> <<>>]

\* RequestCollection.add_folder
RequestCollection_add_folder(c, id, name, parent_id) ==
    [c EXCEPT !.items = Append(@, CollectionFolder(id, name, parent_id))]

\* RequestCollection.add_request
RequestCollection_add_request(c, id, req, parent_id, name) ==
    LET n == IF name # <<>> THEN name
             ELSE IF req.name # <<>> THEN req.name
             ELSE <<req.method, " ">> \o req.url
    IN  [c EXCEPT !.items = Append(@, CollectionRequest(id, n, parent_id, req))]

\* the position of the first item with the id, 0 when there is none
IndexOfItem(items, item_id) ==
    IF \E i \in 1..Len(items) : items[i].id = item_id
    THEN CHOOSE i \in 1..Len(items) :
            /\ items[i].id = item_id
            /\ \A j \in 1..(i - 1) : items[j].id # item_id
    ELSE 0

\* RequestCollection.get_children
get_children(c, parent_id) == SelectSeq(c.items, LAMBDA item : item.parent_id = parent_id)

\* del items[i]
DeleteAt(items, i) == SubSeq(items, 1, i - 1) \o SubSeq(items, i + 1, Len(items))

\* the position list.remove(x) deletes: the first element equal to x
IndexOfEqual(items, x) ==
    IF \E i \in 1..Len(items) : items[i] = x
    THEN CHOOSE i \in 1..Len(items) :
            items[i] = x /\ \A j \in 1..(i - 1) : items[j] # x
    ELSE 0

\* RequestCollection._remove_children; limit is the depth no recursion over
\* distinct items reaches: beyond it the parent links run in a cycle, the
\* recursion does not end and the interpreter raises RecursionError
RECURSIVE remove_children(_, _, _, _)
RECURSIVE remove_each_child(_, _, _, _)
remove_children(c, parent_id, depth, limit) ==
    IF depth > limit
    THEN [raised |-> "RecursionError", collection |-> c]
    ELSE remove_each_child(c, get_children(c, parent_id), depth, limit)

\* for child in children: self._remove_children(child.id); self.items.remove(child)
remove_each_child(c, children, depth, limit) ==
    IF children = <<>>
    THEN [raised |-> "", collection |-> c]
    ELSE LET r == remove_children(c, Head(children).id, depth + 1, limit) IN
         IF r.raised # "" THEN r
         ELSE LET i == IndexOfEqual(r.collection.items, Head(children)) IN
              IF i = 0
              THEN [raised |-> "ValueError", collection |-> r.collection]
              ELSE remove_each_child(
                      [r.collection EXCEPT !.items = DeleteAt(@, i)],
                      Tail(children), depth, limit)

\* RequestCollection.remove_item
RequestCollection_remove_item(c, item_id) ==
    LET r == remove_children(c, item_id, 1, Len(c.items) + 1) IN
    IF r.raised # ""
    THEN [raised |-> r.raised, result |-> FALSE, collection |-> r.collection]
    ELSE LET i == IndexOfItem(r.collection.items, item_id) IN
         IF i # 0
         THEN [raised |-> "", result |-> TRUE,
               collection |-> [r.collection EXCEPT !.items = DeleteAt(@, i)]]
         ELSE [raised |-> "", result |-> FALSE, collection |-> r.collection]

\* RequestCollection.move_item
RequestCollection_move_item(c, item_id, new_parent_id) ==
    LET i == IndexOfItem(c.items, item_id) IN
    IF i # 0
    THEN [result |-> TRUE, collection |-> [c EXCEPT !.items[i].parent_id = new_parent_id]]
    ELSE [result |-> FALSE, collection |-> c]

\* CollectionManager._duplicate_item_recursive; ids are taken from next_id on;
\* limit as in remove_children
RECURSIVE duplicate_item_recursive(_, _, _, _, _, _)
RECURSIVE duplicate_each_child(_, _, _, _, _, _)
duplicate_item_recursive(c, item, new_parent_id, next_id, depth, limit) ==
    IF depth > limit
    THEN [raised |-> "RecursionError", collection |-> c, next_id |-> next_id]
    ELSE IF item.class = "CollectionFolder"
    THEN LET c1 == RequestCollection_add_folder(c, next_id + 1, item.name, new_parent_id) IN
         duplicate_each_child(c1, get_children(c1, item.id), next_id + 1, next_id + 1,
                              depth, limit)
    ELSE [raised |-> "",
          collection |-> RequestCollection_add_request(c, next_id + 1, item.request[1],
                                                       new_parent_id, item.name),
          next_id |-> next_id + 1]

\* for child in children: self._duplicate_item_recursive(collection, child, new_folder.id)
duplicate_each_child(c, children, new_folder_id, next_id, depth, limit) ==
    IF children = <<>>
    THEN [raised |-> "", collection |-> c, next_id |-> next_id]
    ELSE LET r == duplicate_item_recursive(c, Head(children), new_folder_id, next_id,
                                           depth + 1, limit) IN
         IF r.raised # "" THEN r
         ELSE duplicate_each_child(r.collection, Tail(children), new_folder_id,
                                   r.next_id, depth, limit)

\* CollectionManager.get_collection: the position of the first collection
\* with the id, 0 for None
get_collection(collection_id) ==
    IF \E k \in 1..Len(collections) : collections[k].id = collection_id
    THEN CHOOSE k \in 1..Len(collections) :
            /\ collections[k].id = collection_id
            /\ \A j \in 1..(k - 1) : collections[j].id # collection_id
    ELSE 0

\* the list save_collections writes under 'collections'
serialize(cs) == [k \in 1..Len(cs) |-> collection_to_dict(cs[k])]

\* the record of a call: raised is "" when the call returned
CmCall(op, args, result, raised) ==
    <<[op |-> op, args |-> args, result |-> result, raised |-> raised]>>

\* CollectionManager.save_collections after the call changed self.collections
Saved(op, args, result) ==
    /\ collFile' = serialize(collections')
    /\ cmLast' = CmCall(op, args, result, "")

\* a call that returns without touching self.collections or the file
NotFound(op, args, result) ==
    /\ UNCHANGED <<collections, collFile, nextId>>
    /\ cmLast' = CmCall(op, args, result, "")

\* CollectionManager.create_collection
create_collection(name) ==
    /\ cmOps < MaxCollOps
    /\ cmOps' = cmOps + 1
    /\ collections' = Append(collections, RequestCollection(nextId + 1, name))
    /\ nextId' = nextId + 1
    /\ Saved("create_collection", <<>>, nextId + 1)
    /\ UNCHANGED nonCollVars

\* CollectionManager.delete_collection
delete_collection(collection_id) ==
    /\ cmOps < MaxCollOps
    /\ cmOps' = cmOps + 1
    /\ LET k == get_collection(collection_id) IN
        IF k # 0
        THEN /\ collections' = DeleteAt(collections, k)
             /\ UNCHANGED nextId
             /\ Saved("delete_collection", <<collection_id>>, TRUE)
        ELSE NotFound("delete_collection", <<collection_id>>, FALSE)
    /\ UNCHANGED nonCollVars

\* CollectionManager.rename_collection
rename_collection(collection_id, new_name) ==
    /\ cmOps < MaxCollOps
    /\ cmOps' = cmOps + 1
    /\ LET k == get_collection(collection_id) IN
        IF k # 0
        THEN /\ collections' = [collections EXCEPT ![k].name = new_name]
             /\ UNCHANGED nextId
             /\ Saved("rename_collection", <<collection_id>>, TRUE)
        ELSE NotFound("rename_collection", <<collection_id>>, FALSE)
    /\ UNCHANGED nonCollVars

\* CollectionManager.add_folder
add_folder(collection_id, name, parent_id) ==
    /\ cmOps < MaxCollOps
    /\ cmOps' = cmOps + 1
    /\ LET k == get_collection(collection_id) IN
        IF k # 0
        THEN /\ Len(collections[k].items) < MaxItems
             /\ collections' = [collections EXCEPT ![k] =
                    RequestCollection_add_folder(@, nextId + 1, name, parent_id)]
             /\ nextId' = nextId + 1
             /\ Saved("add_folder", <<collection_id, parent_id>>, nextId + 1)
        ELSE NotFound("add_folder", <<collection_id, parent_id>>, NoneId)
    /\ UNCHANGED nonCollVars

\* CollectionManager.add_request
add_request(collection_id, req, parent_id, name) ==
    /\ cmOps < MaxCollOps
    /\ cmOps' = cmOps + 1
    /\ LET k == get_collection(collection_id) IN
        IF k # 0
        THEN /\ Len(collections[k].items) < MaxItems
             /\ collections' = [collections EXCEPT ![k] =
                    RequestCollection_add_request(@, nextId + 1, req, parent_id, name)]
             /\ nextId' = nextId + 1
             /\ Saved("add_request", <<collection_id, parent_id>>, nextId + 1)
        ELSE NotFound("add_request", <<collection_id, parent_id>>, NoneId)
    /\ UNCHANGED nonCollVars

\* CollectionManager.remove_item: the file is written only when
\* RequestCollection.remove_item returns True
remove_item(collection_id, item_id) ==
    /\ cmOps < MaxCollOps
    /\ cmOps' = cmOps + 1
    /\ LET k == get_collection(collection_id) IN
        IF k # 0
        THEN LET r == RequestCollection_remove_item(collections[k], item_id) IN
             /\ collections' = [collections EXCEPT ![k] = r.collection]
             /\ UNCHANGED nextId
             /\ IF r.raised = "" /\ r.result
                THEN Saved("remove_item", <<collection_id, item_id>>, TRUE)
                ELSE /\ UNCHANGED collFile
                     /\ cmLast' = CmCall("remove_item", <<collection_id, item_id>>,
                                         FALSE, r.raised)
        ELSE NotFound("remove_item", <<collection_id, item_id>>, FALSE)
    /\ UNCHANGED nonCollVars

\* CollectionManager.move_item
move_item(collection_id, item_id, new_parent_id) ==
    /\ cmOps < MaxCollOps
    /\ cmOps' = cmOps + 1
    /\ LET k == get_collection(collection_id) IN
        IF k # 0 /\ RequestCollection_move_item(collections[k], item_id, new_parent_id).result
        THEN /\ collections' = [collections EXCEPT ![k] =
                    RequestCollection_move_item(@, item_id, new_parent_id).collection]
             /\ UNCHANGED nextId
             /\ Saved("move_item", <<collection_id, item_id, new_parent_id>>, TRUE)
        ELSE NotFound("move_item", <<collection_id, item_id, new_parent_id>>, FALSE)
    /\ UNCHANGED nonCollVars

\* CollectionManager.update_item with a name (description left None)
update_item(collection_id, item_id, name) ==
    /\ cmOps < MaxCollOps
    /\ cmOps' = cmOps + 1
    /\ LET k == get_collection(collection_id)
           i == IF k = 0 THEN 0 ELSE IndexOfItem(collections[k].items, item_id)
       IN  IF i # 0
           THEN /\ collections' = [collections EXCEPT ![k].items[i].name = name]
                /\ UNCHANGED nextId
                /\ Saved("update_item", <<collection_id, item_id>>, TRUE)
           ELSE NotFound("update_item", <<collection_id, item_id>>, FALSE)
    /\ UNCHANGED nonCollVars

\* CollectionManager.duplicate_item; an exception of the recursion leaves the
\* items added so far in memory and nothing is written
duplicate_item(collection_id, item_id, new_name) ==
    /\ cmOps < MaxCollOps
    /\ cmOps' = cmOps + 1
    /\ LET k == get_collection(collection_id)
           i == IF k = 0 THEN 0 ELSE IndexOfItem(collections[k].items, item_id)
       IN  IF i # 0
           THEN LET c == collections[k]
                    item == c.items[i]
                    name == IF new_name # <<>> THEN new_name ELSE item.name \o <<" Copy">>
                IN  /\ Len(c.items) < MaxItems
                    /\ IF item.class = "CollectionFolder"
                       THEN LET c1 == RequestCollection_add_folder(c, nextId + 1, name,
                                                                   item.parent_id)
                                r == duplicate_each_child(c1, get_children(c1, item_id),
                                        nextId + 1, nextId + 1, 0, Len(c.items) + 1)
                            IN  /\ collections' = [collections EXCEPT ![k] = r.collection]
                                /\ nextId' = r.next_id
                                /\ IF r.raised = ""
                                   THEN Saved("duplicate_item", <<collection_id, item_id>>,
                                              nextId + 1)
                                   ELSE /\ UNCHANGED collFile
                                        /\ cmLast' = CmCall("duplicate_item",
                                                <<collection_id, item_id>>, NoneId, r.raised)
                       ELSE /\ collections' = [collections EXCEPT ![k] =
                                    RequestCollection_add_request(c, nextId + 1,
                                        item.request[1], item.parent_id, name)]
                            /\ nextId' = nextId + 1
                            /\ Saved("duplicate_item", <<collection_id, item_id>>, nextId + 1)
           ELSE NotFound("duplicate_item", <<collection_id, item_id>>, NoneId)
    /\ UNCHANGED nonCollVars

(***************************************************************************)
(* One collection and its tree of items                                    *)
(***************************************************************************)

\* after construction without a file: _create_default_collection and its save
InitTree ==
    /\ collections = <<RequestCollection(1, <<"My Requests">>)>>
    /\ collFile = serialize(<<RequestCollection(1, <<"My Requests">>)>>)
    /\ nextId = 1
    /\ cmOps = 0
    /\ cmLast = <<>>
    /\ IdleClient
    /\ IdleExec
    /\ IdleData
    /\ IdleWindow

\* the ids of the items of the first collection, and the ids a caller may
\* pass: those, or one that matches nothing
ItemIds == {collections[1].items[i].id : i \in 1..Len(collections[1].items)}
ItemArgs == ItemIds \cup {GhostId}
ParentArgs == ItemIds \cup {GhostId, NoneId}

NextTree ==
    \/ \E parent_id \in ParentArgs : add_folder(1, <<"f">>, parent_id)
    \/ \E req \in RequestInputs, parent_id \in ParentArgs :
            add_request(1, req, parent_id, <<>>)
    \/ \E item_id \in ItemArgs, parent_id \in ParentArgs : move_item(1, item_id, parent_id)
    \/ \E item_id \in ItemArgs : remove_item(1, item_id)
    \/ \E item_id \in ItemArgs, name \in {<<>>, <<"n">>} : update_item(1, item_id, name)
    \/ \E item_id \in ItemArgs : duplicate_item(1, item_id, <<>>)

SpecTree == InitTree /\ [][NextTree]_vars

\* the ids of the items whose parent_id is one of the ids in parents
ChildIds(items, parents) ==
    {items[i].id : i \in {j \in 1..Len(items) : items[j].parent_id \in parents}}

\* the transitive descendants of an id by parent_id
RECURSIVE DescendantsFrom(_, _, _)
DescendantsFrom(items, found, n) ==
    IF n = 0 THEN found
    ELSE DescendantsFrom(items, found \cup ChildIds(items, found), n - 1)

Descendants(items, id) == DescendantsFrom(items, ChildIds(items, {id}), Len(items))

\* the step is a call of op on the first collection with item_id naming one
\* of its items
CallOnItem(op) ==
    /\ cmOps' = cmOps + 1
    /\ cmLast'[1].op = op
    /\ cmLast'[1].args[1] = 1
    /\ cmLast'[1].args[2] \in ItemIds

\* C7: remove_item(id) with the id of an item of the collection returns true
\* and leaves exactly the items that are neither the item nor one of its
\* transitive descendants, unchanged and in their order.
C7_RemoveItemRemovesSubtree ==
    [][CallOnItem("remove_item") =>
        LET id == cmLast'[1].args[2]
            gone == {id} \cup Descendants(collections[1].items, id)
        IN  /\ cmLast'[1].raised = ""
            /\ cmLast'[1].result = TRUE
            /\ collections'[1].items =
                SelectSeq(collections[1].items, LAMBDA item : item.id \notin gone)]_vars

\* the items with the ids
ItemOf(items, id) == items[IndexOfItem(items, id)]

\* the new items (since position first) copy the subtree of the item id: a
\* one-to-one map from the item and its descendants onto the new items keeps
\* kind and parent/child links, keeps the names of the descendants, and puts
\* the copy of the item under the item's own parent
CopiesSubtree(old, new, id) ==
    LET subtree == {id} \cup Descendants(old, id)
        added == {new[i].id : i \in (Len(old) + 1)..Len(new)}
    IN  \E f \in [subtree -> added] :
            /\ \A a, b \in subtree : a # b => f[a] # f[b]
            /\ \A a \in subtree :
                /\ ItemOf(new, f[a]).class = ItemOf(old, a).class
                /\ a # id => ItemOf(new, f[a]).name = ItemOf(old, a).name
                /\ a # id => ItemOf(new, f[a]).parent_id = f[ItemOf(old, a).parent_id]
            /\ ItemOf(new, f[id]).parent_id = ItemOf(old, id).parent_id

\* C8: duplicate_item on a folder with N transitive descendants adds exactly
\* N + 1 items, leaves the existing items as they are, gives the new items ids
\* no existing item has, and the new items copy the subtree of the folder.
C8_DuplicateFolderCopiesSubtree ==
    [][(/\ CallOnItem("duplicate_item")
        /\ ItemOf(collections[1].items, cmLast'[1].args[2]).class = "CollectionFolder") =>
        LET id == cmLast'[1].args[2]
            old == collections[1].items
            new == collections'[1].items
            N == Cardinality(Descendants(old, id) \ {id})
        IN  /\ cmLast'[1].raised = ""
            /\ Len(new) = Len(old) + N + 1
            /\ SubSeq(new, 1, Len(old)) = old
            /\ \A i \in (Len(old) + 1)..Len(new) :
                /\ new[i].id \notin {old[j].id : j \in 1..Len(old)}
                /\ \A j \in (Len(old) + 1)..Len(new) : i # j => new[i].id # new[j].id
            /\ CopiesSubtree(old, new, id)]_vars

\* C9: from_dict(to_dict(c)) equals c, in every field of the collection and of
\* every item and in the order of the items, for every collection the
\* operations produce.
C9_RoundTrip ==
    \A k \in 1..Len(collections) :
        collection_from_dict(collection_to_dict(collections[k])) = collections[k]
\* the collection built by add_folder, add_request and move_item, with calls
\* of remove_item
NextBuild ==
    \/ \E parent_id \in ParentArgs : add_folder(1, <<"f">>, parent_id)
    \/ \E req \in RequestInputs, parent_id \in ParentArgs :
            add_request(1, req, parent_id, <<>>)
    \/ \E item_id \in ItemArgs, parent_id \in ParentArgs : move_item(1, item_id, parent_id)
    \/ \E item_id \in ItemArgs \cup {nextId} : remove_item(1, item_id)

SpecBuild == InitTree /\ [][NextBuild]_vars

\* the step is a call of remove_item on the first collection with an item_id
\* that names none of its items
RemoveOfUnknownId ==
    /\ cmOps' = cmOps + 1
    /\ cmLast'[1].op = "remove_item"
    /\ cmLast'[1].args[1] = 1
    /\ cmLast'[1].args[2] \notin ItemIds

\* C14: remove_item(id) with an id that matches no item of the collection
\* (never given, or removed before) returns false and leaves the list of items
\* as it is, whatever parent ids add_folder, add_request and move_item were
\* given.
C14_RemoveUnknownIdChangesNothing ==
    [][RemoveOfUnknownId =>
        /\ cmLast'[1].raised = ""
        /\ cmLast'[1].result = FALSE
        /\ collections'[1].items = collections[1].items]_vars

\* the collection under add_folder, add_request, move_item, remove_item and
\* duplicate_item, every parent_id argument being None or the id of an item
\* of the collection
NextLinks ==
    \/ \E parent_id \in ItemIds \cup {NoneId} : add_folder(1, <<"f">>, parent_id)
    \/ \E req \in RequestInputs, parent_id \in ItemIds \cup {NoneId} :
            add_request(1, req, parent_id, <<>>)
    \/ \E item_id \in ItemIds, parent_id \in ItemIds \cup {NoneId} :
            move_item(1, item_id, parent_id)
    \/ \E item_id \in ItemArgs : remove_item(1, item_id)
    \/ \E item_id \in ItemArgs : duplicate_item(1, item_id, <<>>)

SpecLinks == InitTree /\ [][NextLinks]_vars

\* C16: in every collection the parent_id of every item is None or the id of
\* another item of the collection, and that item is a folder.
C16_ParentIsFolderOfCollection ==
    \A k \in 1..Len(collections) :
        LET items == collections[k].items IN
        \A i \in 1..Len(items) :
            \/ items[i].parent_id = NoneId
            \/ \E j \in 1..Len(items) :
                    /\ j # i
                    /\ items[j].id = items[i].parent_id
                    /\ items[j].class = "CollectionFolder"

\* C17: the parent_id links have no cycle: every item is reached from the
\* root level (parent_id None) by following the links downwards, and no item
\* is among its own descendants.
C17_NoParentCycle ==
    \A k \in 1..Len(collections) :
        LET items == collections[k].items IN
        \A i \in 1..Len(items) :
            /\ items[i].id \in Descendants(items, NoneId)
            /\ items[i].id \notin Descendants(items, items[i].id)

\* C23: every call of remove_item ends by returning a boolean, and does not
\* raise, in every collection add_folder, add_request, move_item (an item
\* under itself or under a descendant included) and duplicate_item produce.
C23_RemoveItemReturns ==
    (cmLast # <<>> /\ cmLast[1].op = "remove_item") =>
        /\ cmLast[1].raised = ""
        /\ cmLast[1].result \in BOOLEAN


(***************************************************************************)
(* The APIRequest objects shared between items and the request editor      *)
(***************************************************************************)

\* an APIRequest instance: 'object' is the identity of the instance, which
\* Python keeps when the same object is stored in two items
APIRequestObject(object, name) ==
    [name |-> name, method |-> "GET", url |-> <<"u">>, object |-> object]

\* the methods the method menu offers here
Methods == {"GET", "POST"}

\* MainWindow.load_request_from_collection(item.request) followed by
\* MainWindow.on_method_changed(method): current_request is the object of the
\* item, and the assignment is made on that object, so that every item
\* holding the object shows the method; nothing is written to the file
load_request_from_collection(collection_id, item_id, method) ==
    /\ cmOps < MaxCollOps
    /\ cmOps' = cmOps + 1
    /\ LET k == get_collection(collection_id)
           i == IF k = 0 THEN 0 ELSE IndexOfItem(collections[k].items, item_id)
       IN  /\ i # 0
           /\ collections[k].items[i].class = "CollectionRequest"
           /\ LET loaded == collections[k].items[i].request[1]
                  assigned(item) ==
                      IF /\ item.class = "CollectionRequest"
                         /\ item.request[1].object = loaded.object
                      THEN [item EXCEPT !.request[1].method = method]
                      ELSE item
              IN  collections' = [c \in 1..Len(collections) |->
                      [collections[c] EXCEPT !.items =
                          [j \in 1..Len(collections[c].items) |->
                              assigned(collections[c].items[j])]]]
           /\ UNCHANGED <<collFile, nextId>>
           /\ cmLast' = CmCall("on_method_changed", <<collection_id, item_id, method>>,
                            NoneId, "")
    /\ UNCHANGED nonCollVars

\* the collection under add_folder, add_request of a new APIRequest object,
\* move_item, duplicate_item and the editing of a request loaded from an item
NextShare ==
    \/ \E parent_id \in ItemIds \cup {NoneId} : add_folder(1, <<"f">>, parent_id)
    \/ \E name \in {<<>>, <<"r">>}, parent_id \in ItemIds \cup {NoneId} :
            add_request(1, APIRequestObject(nextId + 1, name), parent_id, <<>>)
    \/ \E item_id \in ItemIds, parent_id \in ItemIds \cup {NoneId} :
            move_item(1, item_id, parent_id)
    \/ \E item_id \in ItemIds : duplicate_item(1, item_id, <<>>)
    \/ \E item_id \in ItemIds, method \in Methods :
            load_request_from_collection(1, item_id, method)

SpecShare == InitTree /\ [][NextShare]_vars

\* the step changes the method of the request of the item edited, the call
\* before it having been a duplicate_item that returned the id new_id: the
\* items with an id from new_id on are the copies, the others the originals
EditAfterDuplicate ==
    /\ cmLast # <<>>
    /\ cmLast[1].op = "duplicate_item"
    /\ cmLast[1].raised = ""
    /\ cmLast[1].result # NoneId
    /\ cmLast'[1].op = "on_method_changed"
    /\ cmOps' = cmOps + 1

\* C25: the items duplicate_item creates for request items hold their own
\* copy of the request: right after a duplication, changing the method of the
\* request of an original item leaves the request of every copy unchanged,
\* and changing the request of a copy leaves every original unchanged.
C25_DuplicateOwnsItsRequest ==
    [][EditAfterDuplicate =>
        LET new_id == cmLast[1].result
            edited == cmLast'[1].args[2]
            items == collections[1].items
        IN  \A i \in 1..Len(items) :
                ((items[i].id >= new_id) # (edited >= new_id)) =>
                    collections'[1].items[i].request = items[i].request]_vars

(***************************************************************************)
(* The CollectionManager with all its operations                           *)
(***************************************************************************)

\* the collections a store may hold when one is created or imported
MaxCollections == 4

\* the number of calls of a run with every operation
MaxManagerOps == 3

\* the files handed to import_collection: an export of a collection named
\* like the default one, an export of a collection that carries a numbered
\* name, a file of another export type, an unreadable file
ExportFile(readable, export_type, c) ==
    [readable |-> readable, export_type |-> export_type,
     collection |-> collection_to_dict(c)]

ExportedCollection ==
    [id |-> 50, name |-> <<"My Requests">>,
     items |-> <<CollectionFolder(51, <<"f">>, NoneId)>>]

ExportedNumbered ==
    [id |-> 60, name |-> <<"My Requests", " (", "2", ")">>, items |-> <<>>]

ImportFiles ==
    {ExportFile(TRUE, "collection", ExportedCollection),
     ExportFile(TRUE, "collection", ExportedNumbered),
     ExportFile(TRUE, "environment", ExportedCollection),
     ExportFile(FALSE, "collection", ExportedCollection)}

\* f"{original_name} ({counter})"
NumberedName(original_name, counter) ==
    original_name \o <<" (", ToString(counter), ")">>

\* CollectionManager.get_collection_by_name, as the truth value the loop tests
get_collection_by_name(name) ==
    \E k \in 1..Len(collections) : collections[k].name = name

\* while self.get_collection_by_name(collection.name):
\*     collection.name = f"{original_name} ({counter})"; counter += 1
RECURSIVE unique_name_loop(_, _, _)
unique_name_loop(original_name, name, counter) ==
    IF get_collection_by_name(name)
    THEN unique_name_loop(original_name, NumberedName(original_name, counter), counter + 1)
    ELSE name

\* the loop with a single renaming step: an if in place of the while
UniqueNameRenamedOnce(original_name) ==
    IF get_collection_by_name(original_name)
    THEN NumberedName(original_name, 1)
    ELSE original_name

\* "Ensure unique name": original_name = collection.name, counter = 1, the loop
UniqueName(original_name) == unique_name_loop(original_name, original_name, 1)

\* CollectionManager.import_collection
import_collection(file) ==
    /\ cmOps < MaxCollOps
    /\ cmOps' = cmOps + 1
    /\ IF ~file.readable \/ file.export_type # "collection"
       THEN NotFound("import_collection", <<>>, NoneId)
       ELSE LET c == collection_from_dict(file.collection) IN
            /\ Len(collections) < MaxCollections
            /\ collections' = Append(collections, [c EXCEPT !.name = UniqueName(c.name)])
            /\ UNCHANGED nextId
            /\ Saved("import_collection", <<>>, c.id)
    /\ UNCHANGED nonCollVars

\* the ids a caller may pass: those of the collections and of their items, or
\* one that matches nothing
CollectionArgs == {collections[k].id : k \in 1..Len(collections)} \cup {GhostId}
AllItemIds ==
    UNION {{collections[k].items[i].id : i \in 1..Len(collections[k].items)} :
            k \in 1..Len(collections)}

NextManager ==
    /\ cmOps < MaxManagerOps
    /\ \/ Len(collections) < MaxCollections /\ create_collection(<<"c">>)
       \/ \E cid \in CollectionArgs : delete_collection(cid)
       \/ \E cid \in CollectionArgs : rename_collection(cid, <<"c">>)
       \/ \E file \in ImportFiles : import_collection(file)
       \/ \E cid \in CollectionArgs, parent_id \in AllItemIds \cup {GhostId, NoneId} :
            add_folder(cid, <<"f">>, parent_id)
       \/ \E cid \in CollectionArgs, parent_id \in AllItemIds \cup {GhostId, NoneId} :
            add_request(cid, APIRequestOf(<<"r">>), parent_id, <<>>)
       \/ \E cid \in CollectionArgs, item_id \in AllItemIds \cup {GhostId} :
            remove_item(cid, item_id)
       \/ \E cid \in CollectionArgs, item_id \in AllItemIds \cup {GhostId},
             parent_id \in AllItemIds \cup {GhostId, NoneId} :
            move_item(cid, item_id, parent_id)
       \/ \E cid \in CollectionArgs, item_id \in AllItemIds \cup {GhostId} :
            update_item(cid, item_id, <<>>)
       \/ \E cid \in CollectionArgs, item_id \in AllItemIds \cup {GhostId} :
            duplicate_item(cid, item_id, <<>>)

SpecManager == InitTree /\ [][NextManager]_vars

\* C10: after every CollectionManager call that has returned, whatever it
\* returned, the collections document on disk is the serialization of the
\* collections in memory.
C10_FileMatchesMemory ==
    (cmLast # <<>> /\ cmLast[1].raised = "") => collFile = serialize(collections)

\* an import_collection call that has returned a collection
ImportStep ==
    /\ cmOps' = cmOps + 1
    /\ cmLast'[1].op = "import_collection"
    /\ cmLast'[1].result # NoneId

\* the readable collection export whose collection has the given id
ExportWithId(id) ==
    CHOOSE f \in ImportFiles :
        f.readable /\ f.export_type = "collection" /\ f.collection.id = id

\* C11: import_collection of a valid collection export appends exactly one
\* collection and leaves every existing collection unchanged; the added
\* collection is the exported one, under its exported name if no existing
\* collection has that name, and otherwise under "<name> (n)" for the smallest
\* n >= 1 whose numbered name no existing collection has; its name differs
\* from the name of every collection that existed before.
C11_ImportAddsOneUniquelyNamed ==
    [][ImportStep =>
        LET old == collections
            new == collections'
            added == new[Len(new)]
            exported == ExportWithId(added.id).collection
            names == {old[k].name : k \in 1..Len(old)}
        IN  /\ Len(new) = Len(old) + 1
            /\ SubSeq(new, 1, Len(old)) = old
            /\ [added EXCEPT !.name = exported.name] = collection_from_dict(exported)
            /\ exported.name \notin names => added.name = exported.name
            /\ exported.name \in names =>
                    \E n \in 1..(Len(old) + 1) :
                        /\ added.name = NumberedName(exported.name, n)
                        /\ \A m \in 1..(n - 1) : NumberedName(exported.name, m) \in names
            /\ added.name \notin names]_vars

\* an import has skipped the taken name "My Requests (2)" and has numbered
\* the added collection 3
C11_Witness ==
    /\ cmLast # <<>>
    /\ cmLast[1].op = "import_collection"
    /\ cmLast[1].result = ExportedCollection.id
    /\ collections[Len(collections)].name = NumberedName(<<"My Requests">>, 3)
    /\ \E k \in 1..(Len(collections) - 1) :
            collections[k].name = NumberedName(<<"My Requests">>, 2)

\* no two collections share an id and no two items of a collection share an id
IdsUnique ==
    /\ \A j, k \in 1..Len(collections) : j # k => collections[j].id # collections[k].id
    /\ \A k \in 1..Len(collections) :
        LET items == collections[k].items IN
        \A a, b \in 1..Len(items) : a # b => items[a].id # items[b].id

\* C18: under create_collection, import_collection (the same file more than
\* once included), rename_collection, add_folder, add_request, move_item,
\* update_item and duplicate_item no two collections share an id, no two items
\* of a collection share an id, and every collection and item keeps its id.
C18_IdsUniqueAndFixed ==
    /\ []IdsUnique
    /\ [][cmLast'[1].op \notin {"delete_collection", "remove_item"} =>
            \A k \in 1..Len(collections) :
                /\ collections'[k].id = collections[k].id
                /\ \A i \in 1..Len(collections[k].items) :
                        collections'[k].items[i].id = collections[k].items[i].id]_vars

(***************************************************************************)
(* The construction of the CollectionManager: _load_collections            *)
(***************************************************************************)

\* the collections a file found at construction may list
MaxListed == 4

\* the entries of the 'collections' list of the files: the two exported
\* collections, a collection with a request item that has no name of its own,
\* and a collection whose items list holds a JSON string in place of an item
ListedCollections ==
    {collection_to_dict(ExportedCollection),
     collection_to_dict(ExportedNumbered),
     [id |-> 70, name |-> <<"c">>,
      items |-> <<[type |-> "request", id |-> 71, name |-> <<>>, parent_id |-> NoneId,
                   request |-> <<request_to_dict(APIRequestOf(<<"r">>))>>]>>],
     [id |-> 80, name |-> <<"c">>,
      items |-> <<[type |-> "str", id |-> NoneId, name |-> <<>>, parent_id |-> NoneId,
                   request |-> <<>>]>>]}

RECURSIVE ListsOf(_)
ListsOf(n) ==
    IF n = 0 THEN {<<>>}
    ELSE ListsOf(n - 1) \cup {Append(l, d) : l \in ListsOf(n - 1), d \in ListedCollections}

\* request_collections.json as the constructor finds it: missing, not JSON, a
\* JSON list, an object without 'collections', an object whose 'collections'
\* is null, or an object with a list under 'collections'
Document(shape, listed) == [shape |-> shape, collections |-> listed]

Documents ==
    {Document(shape, <<>>) :
        shape \in {"missing", "invalid JSON", "list", "no collections key", "collections null"}}
    \cup {Document("dict", l) : l \in ListsOf(MaxListed)}

\* item_data.get(...) in RequestCollection.from_dict raises AttributeError on
\* an entry that is not an object
from_dict_raises(data) ==
    \E i \in 1..Len(data.items) : data.items[i].type \notin {"folder", "request"}

\* what _load_collections leaves in self.collections, and whether it went
\* through _create_default_collection
Loaded(cs, default) == [collections |-> cs, default |-> default]

\* _load_collections without "Ensure at least one collection exists"
load_collections_no_ensure(doc, default_id) ==
    LET default == Loaded(<<RequestCollection(default_id, <<"My Requests">>)>>, TRUE) IN
    IF doc.shape = "missing" THEN default
    ELSE IF doc.shape \in {"invalid JSON", "list", "collections null"} THEN default
    ELSE LET listed == IF doc.shape = "dict" THEN doc.collections ELSE <<>> IN
         IF \E k \in 1..Len(listed) : from_dict_raises(listed[k]) THEN default
         ELSE Loaded([k \in 1..Len(listed) |-> collection_from_dict(listed[k])], FALSE)

\* CollectionManager._load_collections; default_id is the uuid4 a default
\* collection gets
load_collections(doc, default_id) ==
    LET default == Loaded(<<RequestCollection(default_id, <<"My Requests">>)>>, TRUE) IN
    IF doc.shape = "missing" THEN default
    ELSE IF doc.shape \in {"invalid JSON", "list", "collections null"} THEN default
    ELSE LET listed == IF doc.shape = "dict" THEN doc.collections ELSE <<>> IN
         IF \E k \in 1..Len(listed) : from_dict_raises(listed[k]) THEN default
         ELSE IF listed = <<>> THEN default
         ELSE Loaded([k \in 1..Len(listed) |-> collection_from_dict(listed[k])], FALSE)

\* before the constructor has run
InitLoad ==
    /\ IdleColl
    /\ IdleClient
    /\ IdleExec
    /\ IdleData
    /\ IdleWindow

\* CollectionManager.__init__ on the file doc; _create_default_collection
\* saves, a successful load does not write
Construct(doc) ==
    /\ cmLast = <<>>
    /\ LET r == load_collections(doc, nextId + 1) IN
        /\ collections' = r.collections
        /\ nextId' = IF r.default THEN nextId + 1 ELSE nextId
        /\ collFile' = IF r.default THEN serialize(r.collections) ELSE doc.collections
        /\ cmLast' = CmCall("__init__", <<doc>>, r.default, "")
    /\ UNCHANGED <<cmOps, nonCollVars>>

NextLoad == \E doc \in Documents : Construct(doc)

SpecLoad == InitLoad /\ [][NextLoad]_vars

\* the file lists one or more collections and every entry can be loaded
ListsCollections(doc) ==
    /\ doc.shape = "dict"
    /\ doc.collections # <<>>
    /\ \A k \in 1..Len(doc.collections) : ~from_dict_raises(doc.collections[k])

\* C19: after the construction the store holds at least one collection; it
\* holds exactly one collection, named "My Requests" and without items, when
\* the file is missing, unreadable, not of the expected shape or lists no
\* collections; a readable file that lists collections is loaded entry by
\* entry, in order, with no default added and without being rewritten.
C19_DefaultOnlyWhenNothingLoads ==
    (cmLast # <<>> /\ cmLast[1].op = "__init__") =>
        LET doc == cmLast[1].args[1] IN
        /\ Len(collections) >= 1
        /\ ~ListsCollections(doc) =>
                /\ Len(collections) = 1
                /\ collections[1].name = <<"My Requests">>
                /\ collections[1].items = <<>>
        /\ ListsCollections(doc) =>
                /\ Len(collections) = Len(doc.collections)
                /\ \A k \in 1..Len(collections) :
                        /\ collections[k].id = doc.collections[k].id
                        /\ collections[k].name = doc.collections[k].name
                        /\ Len(collections[k].items) = Len(doc.collections[k].items)
                /\ collFile = doc.collections

\* the constructor has met an object whose 'collections' list is empty
C19_Witness ==
    /\ cmLast # <<>>
    /\ cmLast[1].op = "__init__"
    /\ cmLast[1].args[1] = Document("dict", <<>>)
    /\ Len(collections) = 1

----------------------------------------------------------------------------
(***************************************************************************)
(* MainWindow: the current request, the calls sent and the history saved   *)
(***************************************************************************)

\* the number of user actions and of make_request calls of a run
MaxUiOps == 4
MaxSends == 2

\* APIRequest(): the fields of a new instance
NewAPIRequest == [url |-> <<>>, method |-> "GET", body |-> <<>>, body_type |-> "json"]

\* the texts typed into the URL entry, and the bodies of the body editor
EntryTexts == {<<>>, Http \o <<"x">>}
EditedBodies == {<<>>, <<"x">>}

\* an APIResponse: call names the make_request call it answers
ResponseOf(call, error) == [call |-> call, error |-> error]

\* the request/response pair save_to_history stores: request.to_dict() and
\* response.to_dict()
Pair(req, response) == [request |-> req, response |-> response]

\* a make_request call: the instance passed to the thread, the fields it had
\* when send_request passed it, the fields _execute_request read, the
\* response, and the position of the thread
Thread(req) ==
    [request |-> req, sent |-> objects[req], made |-> <<>>, response |-> <<>>,
     at |-> "started"]

\* the window after construction: one new APIRequest, nothing typed
InitWindow ==
    /\ objects = <<NewAPIRequest>>
    /\ current_request = 1
    /\ current_response = <<>>
    /\ url_entry = <<>>
    /\ calls = <<>>
    /\ after = 0
    /\ uiOps = 0
    /\ IdleClient
    /\ IdleExec
    /\ IdleData
    /\ IdleColl

\* a user action that leaves the calls and the stores alone
UserAction ==
    /\ uiOps < MaxUiOps
    /\ uiOps' = uiOps + 1
    /\ UNCHANGED <<calls, after, clientVars, execVars, dataVars, collVars>>

\* the user types into the URL entry
type_url(text) ==
    /\ UserAction
    /\ url_entry' = text
    /\ UNCHANGED <<objects, current_request, current_response>>

\* on_method_changed: self.current_request.method = method
on_method_changed(method) ==
    /\ UserAction
    /\ objects' = [objects EXCEPT ![current_request].method = method]
    /\ UNCHANGED <<current_request, current_response, url_entry>>

\* on_request_changed: self.current_request.body = body, .body_type = body_type
on_request_changed(body, body_type) ==
    /\ UserAction
    /\ objects' = [objects EXCEPT ![current_request].body = body,
                                  ![current_request].body_type = body_type]
    /\ UNCHANGED <<current_request, current_response, url_entry>>

\* new_request: a new instance becomes the current request, the current
\* response is dropped and the URL entry cleared
new_request ==
    /\ UserAction
    /\ objects' = Append(objects, NewAPIRequest)
    /\ current_request' = Len(objects) + 1
    /\ current_response' = <<>>
    /\ url_entry' = <<>>

\* send_request (the Send button, Return in the URL entry, F5): the url of
\* the entry is stored in the current request; when validate accepts it
\* make_request starts a thread on the instance itself
send_request ==
    /\ uiOps < MaxUiOps
    /\ uiOps' = uiOps + 1
    /\ objects' = [objects EXCEPT ![current_request].url = url_entry]
    /\ IF validate(objects'[current_request]).valid
       THEN /\ Len(calls) < MaxSends
            /\ calls' = Append(calls, [Thread(current_request) EXCEPT
                                            !.sent = objects'[current_request]])
       ELSE UNCHANGED calls
    /\ UNCHANGED <<current_request, current_response, url_entry, after,
                   clientVars, execVars, dataVars, collVars>>

\* _request_thread of call i: _execute_request reads the fields the instance
\* has now, makes the HTTP call with them and returns a response, with or
\* without an error
request_thread(i, error) ==
    /\ calls[i].at = "started"
    /\ calls' = [calls EXCEPT ![i].made = <<objects[calls[i].request]>>,
                              ![i].response = <<ResponseOf(i, error)>>,
                              ![i].at = "executed"]
    /\ UNCHANGED <<objects, current_request, current_response, url_entry, after, uiOps,
                   clientVars, execVars, dataVars, collVars>>

\* on_response_received, called by the thread of call i
on_response_received(i) ==
    /\ calls[i].at = "executed"
    /\ calls' = [calls EXCEPT ![i].at = "done"]
    /\ current_response' = calls[i].response
    /\ after' = after + 1
    /\ UNCHANGED <<objects, current_request, url_entry, uiOps,
                   clientVars, execVars, dataVars, collVars>>

\* _update_response_ui, run by the main loop: a response without an error is
\* saved to history with self.current_request as it is now
update_response_ui ==
    /\ after > 0
    /\ after' = after - 1
    /\ IF current_response # <<>> /\ ~current_response[1].error
       THEN /\ now' = now + 1
            /\ history' = Truncate(<<Entry(now + 1, Pair(objects[current_request],
                                                         current_response[1]))>>
                                   \o history, HistoryLimit)
       ELSE UNCHANGED <<now, history>>
    /\ UNCHANGED <<objects, current_request, current_response, url_entry, calls, uiOps,
                   environments, dmCollections, dmOps, dmLast,
                   clientVars, execVars, collVars>>

NextWindow ==
    \/ \E text \in EntryTexts : type_url(text)
    \/ \E method \in Methods : on_method_changed(method)
    \/ \E body \in EditedBodies : on_request_changed(body, "raw")
    \/ new_request
    \/ send_request
    \/ \E i \in 1..Len(calls), error \in BOOLEAN : request_thread(i, error)
    \/ \E i \in 1..Len(calls) : on_response_received(i)
    \/ update_response_ui

SpecWindow == InitWindow /\ [][NextWindow]_vars

\* C30: every history entry pairs a response with the request as it was when
\* the call answered by that response was sent, whatever is edited or replaced
\* between send_request and the handling of the response, and every call is
\* made with the field values the request had at send_request.
C30_HistoryPairsDispatchedRequest ==
    /\ \A k \in 1..Len(history) :
            LET pair == history[k].request IN
            pair.request = calls[pair.response.call].sent
    /\ \A i \in 1..Len(calls) :
            calls[i].made # <<>> => calls[i].made[1] = calls[i].sent

====
